---- MODULE Spec2Model ----
(***************************************************************************)
(* code-graph: the parse -> index pipeline (sync / update / watch), the    *)
(* SQLite-backed store (GraphDatabase) and the cross-file reference        *)
(* resolver (ReferenceResolver), as a state machine.                       *)
(*                                                                         *)
(* Strings are modelled as follows.  A file path is a string whose split   *)
(* on '/' is given by Segs; a symbol name is a string whose split on '.'   *)
(* is given by Parts.  md5 digests are                                     *)
(* modelled as injective: a node id is the tuple of the hashed fields      *)
(* headed by the node type (`${type}_${hash}`), an edge id is the tuple of *)
(* the hashed fields headed by "edge", a content digest is the content's   *)
(* tag.  A "ref:<kind>:<name>" placeholder is <<"ref", kind, name>>.       *)
(* A metadata object is a function from the keys that are present.         *)
(***************************************************************************)
EXTENDS Integers, Sequences, FiniteSets, TLC

VARIABLES
  disk,          \* the project's files: path -> content, or Absent
  nodes,         \* table nodes
  edges,         \* table edges
  hashes,        \* table file_hashes: path -> digest, or NoHash
  run,           \* the command or watcher callback in progress and its locals
  observed,      \* the last answer of the tool server, exit of a command or outcome of a call
  dirty,         \* history: a file changed on disk since the last sync scanned it
  syncRecorded,  \* history: the paths whose file_hashes row a sync has written
  settled,       \* history: the last statement run on the store ended a resolve()
  edits,         \* history: number of changes made on disk
  faults,        \* history: number of store statements that threw
  config,        \* .code-graph/config.json exists: the project is initialised
  logger,        \* the McpLogger, its log directory and file, and its reports on stderr
  watcher,       \* the watch process: its clock, pendingUpdates, and per path the
                 \* history of its events and reconciliations
  server,        \* the tool server: currentDb, currentProject, the database handles
                 \* it has constructed, and the history of its last call
  scope          \* config.include, config.exclude and config.languages

vars == <<disk, nodes, edges, hashes, run, observed, dirty, syncRecorded, settled, edits,
          faults, config, logger, watcher, server, scope>>

-----------------------------------------------------------------------------
(* Bounds *)

\* number of changes made to the project's files on disk
MaxEdits == 1

\* number of store statements that throw
MaxFaults == 1

\* length of the target file of get_editing_context, in characters
MaxChars == 20

\* largest max_tokens asked of get_editing_context
MaxBudget == 10

-----------------------------------------------------------------------------
(* The project on disk *)

PX == "a/x.ts"
PY == "a/y.js"
PJ == "b/J.java"

Paths == {PX, PY, PJ}

\* the order in which glob yields the files
ScanOrder == <<PX, PY, PJ>>

\* A second project: a/c.ts calls helper() and imports nothing; two other
\* files, one named h and one named g, each define a top-level function
\* helper.  Each of the two is placed in the directory of the caller or in
\* another one, and is a TypeScript or a JavaScript file.
PC == "a/c.ts"
HPaths == {"a/h.ts", "a/h.js", "b/h.ts", "b/h.js"}
GPaths == {"a/g.ts", "a/g.js", "b/g.ts", "b/g.js"}

\* the order in which glob yields the files of the second project
PlacedOrder == <<PC, "a/g.js", "a/g.ts", "a/h.js", "a/h.ts",
                 "b/g.js", "b/g.ts", "b/h.js", "b/h.ts">>

\* s.split('/') for the paths and module specifiers of the project
Segs(p) ==
  CASE p = PX -> <<"a", "x.ts">>
    [] p = PY -> <<"a", "y.js">>
    [] p = PJ -> <<"b", "J.java">>
    [] p = "../b/J" -> <<"..", "b", "J">>
    [] p = "./y" -> <<".", "y">>
    [] p = PC -> <<"a", "c.ts">>
    [] p = "a/h.ts" -> <<"a", "h.ts">>
    [] p = "a/h.js" -> <<"a", "h.js">>
    [] p = "b/h.ts" -> <<"b", "h.ts">>
    [] p = "b/h.js" -> <<"b", "h.js">>
    [] p = "a/g.ts" -> <<"a", "g.ts">>
    [] p = "a/g.js" -> <<"a", "g.js">>
    [] p = "b/g.ts" -> <<"b", "g.ts">>
    [] p = "b/g.js" -> <<"b", "g.js">>

\* segment.replace(/\.[^/.]+$/, '')
StripExt(seg) ==
  CASE seg = "x.ts" -> "x"
    [] seg = "y.js" -> "y"
    [] seg = "J.java" -> "J"
    [] seg = "c.ts" -> "c"
    [] seg \in {"h.ts", "h.js"} -> "h"
    [] seg \in {"g.ts", "g.js"} -> "g"
    [] OTHER -> seg

\* filePath.match(/\.[^.]+$/)
FileExtension(p) ==
  CASE p = PX -> ".ts"
    [] p = PY -> ".js"
    [] p = PJ -> ".java"
    [] p \in {PC, "a/h.ts", "b/h.ts", "a/g.ts", "b/g.ts"} -> ".ts"
    [] p \in {"a/h.js", "b/h.js", "a/g.js", "b/g.js"} -> ".js"

\* s.toLowerCase()
ToLower(s) == IF s = "J" THEN "j" ELSE s

\* name.split('.')
Parts(name) ==
  CASE name = "J.helper" -> <<"J", "helper">>
    [] OTHER -> <<name>>

\* parts.join('.')
RECURSIVE Dotted(_)
Dotted(parts) ==
  IF Len(parts) = 1 THEN parts[1] ELSE parts[1] \o "." \o Dotted(Tail(parts))

Absent == [v |-> "absent"]

\* A file content: its import declarations, its top-level functions (for
\* Java: its class and the methods of the class) with the calls made in each
\* body, and how the language's parser library takes it (fail):
\*   "none"   it parses;
\*   "syntax" the library call guarded by the extractor's own try throws;
\*   "throw"  an exception escapes the extractor.
\* The names of an import declaration are kept as the extractor records
\* them: form "string" is a bare string (n.getName()), form "object" is a
\* {name, alias?} object.
UseFn == [name |-> "use", line |-> 2, exported |-> TRUE,
          calls |-> << [name |-> "helper", line |-> 3],
                       [name |-> "J.helper", line |-> 4] >>]
HelperFn == [name |-> "helper", line |-> 1, exported |-> TRUE, calls |-> << >>]

X1 == [v |-> "X1", fail |-> "none", class |-> "", imports |-> << >>,
       funcs |-> << UseFn >>]
X2 == [v |-> "X2", fail |-> "none", class |-> "",
       imports |-> << [spec |-> "../b/J", named |-> << "J" >>, line |-> 1] >>,
       funcs |-> << UseFn >>]
Y1 == [v |-> "Y1", fail |-> "none", class |-> "", imports |-> << >>,
       funcs |-> << HelperFn >>]
Y2 == [v |-> "Y2", fail |-> "throw", class |-> "", imports |-> << >>,
       funcs |-> << >>]
J1 == [v |-> "J1", fail |-> "none", class |-> "J", imports |-> << >>,
       funcs |-> << [name |-> "helper", line |-> 2, exported |-> FALSE,
                     calls |-> << >>] >>]
J2 == [v |-> "J2", fail |-> "syntax", class |-> "J", imports |-> << >>,
       funcs |-> << >>]

\* the contents of the files of the second project
CallerC == [v |-> "C1", fail |-> "none", class |-> "", imports |-> << >>,
            funcs |-> << [name |-> "use", line |-> 2, exported |-> TRUE,
                          calls |-> << [name |-> "helper", line |-> 3] >>] >>]
HelperC(exported) ==
  [v |-> IF exported THEN "H1" ELSE "H0", fail |-> "none", class |-> "",
   imports |-> << >>,
   funcs |-> << [name |-> "helper", line |-> 1, exported |-> exported,
                 calls |-> << >>] >>]

ContentsOf(p) ==
  CASE p = PX -> {X1, X2}
    [] p = PY -> {Y1, Y2}
    [] p = PJ -> {J1, J2}

\* crypto.createHash('md5').update(content).digest('hex')
Hash(c) == c.v

NoHash == "nohash"

-----------------------------------------------------------------------------
(* Helpers on sequences *)

Has(m, k) == k \in DOMAIN m

Range(s) == {s[i] : i \in 1..Len(s)}

Last(s) == s[Len(s)]

RECURSIVE Flatten(_)
Flatten(ss) == IF ss = << >> THEN << >> ELSE Head(ss) \o Flatten(Tail(ss))

IsPrefix(s, t) == Len(s) <= Len(t) /\ SubSeq(t, 1, Len(s)) = s

\* F applied to the value of v, which is evaluated once
With(v, F(_)) == CHOOSE r \in {F(x) : x \in {v}} : TRUE

\* s.map(F)
MapSeq(s, F(_)) ==
  With(s, LAMBDA v : SelectSeq([i \in 1..Len(v) |-> F(v[i])], LAMBDA y : TRUE))

-----------------------------------------------------------------------------
(* Extractors (src/parsers) *)

generateNodeId(filePath, type, name, line) == <<type, filePath, name, line>>

generateEdgeId(sourceId, targetId, type) == <<"edge", sourceId, targetId, type>>

createNode(filePath, type, name, lineStart, language, metadata) ==
  [id |-> generateNodeId(filePath, type, name, lineStart), type |-> type,
   name |-> name, filePath |-> filePath, lineStart |-> lineStart,
   language |-> language, metadata |-> metadata]

createEdge(sourceId, targetId, type, metadata) ==
  [id |-> generateEdgeId(sourceId, targetId, type), sourceId |-> sourceId,
   targetId |-> targetId, type |-> type, metadata |-> metadata]

\* the calls of one body, once per call name (seenCalls)
RECURSIVE UniqueCalls(_, _)
UniqueCalls(calls, seen) ==
  IF calls = << >> THEN << >>
  ELSE IF Head(calls).name \in seen THEN UniqueCalls(Tail(calls), seen)
       ELSE <<Head(calls)>> \o UniqueCalls(Tail(calls), seen \cup {Head(calls).name})

\* TypeScriptParser.parseCallExpressions
parseCallExpressions(calls, parentId) ==
  LET u == UniqueCalls(calls, {})
  IN [i \in 1..Len(u) |->
        createEdge(parentId, <<"ref", "function", u[i].name>>, "calls",
                   [unresolved |-> TRUE, targetName |-> u[i].name, line |-> u[i].line])]

\* TypeScriptParser.parse
TypeScriptParse(filePath, c) ==
  LET isJS == FileExtension(filePath) \in {".js", ".jsx", ".mjs", ".cjs"}
      language == IF isJS THEN "javascript" ELSE "typescript"
      fileNode == createNode(filePath, "file", Last(Segs(filePath)), 1, language,
                             [language |-> language])
      importNode(i) == createNode(filePath, "import", i.spec, i.line, language,
                                  [moduleSpecifier |-> i.spec,
                                   namedImports |-> [k \in 1..Len(i.named) |->
                                       [form |-> "string", text |-> i.named[k]]]])
      funcNode(f) == createNode(filePath, "function", f.name, f.line, language,
                                [isExported |-> f.exported])
  IN IF c.fail = "syntax" THEN [nodes |-> << >>, edges |-> << >>]
     ELSE [nodes |-> <<fileNode>>
                     \o [i \in 1..Len(c.imports) |-> importNode(c.imports[i])]
                     \o [i \in 1..Len(c.funcs) |-> funcNode(c.funcs[i])],
           edges |-> [i \in 1..Len(c.imports) |->
                        createEdge(fileNode.id, importNode(c.imports[i]).id, "contains", << >>)]
                     \o Flatten([i \in 1..Len(c.funcs) |->
                          <<createEdge(fileNode.id, funcNode(c.funcs[i]).id, "contains", << >>)>>
                          \o parseCallExpressions(c.funcs[i].calls, funcNode(c.funcs[i]).id)])]

\* JavaParser.parseMethodBodyForCalls
parseMethodBodyForCalls(calls, methodNodeId) ==
  LET u == UniqueCalls(calls, {})
  IN [i \in 1..Len(u) |->
        createEdge(methodNodeId, <<"ref", "method", u[i].name>>, "calls",
                   [unresolved |-> TRUE, targetName |-> u[i].name])]

\* JavaParser.parse: the file node, the class, its methods
JavaParse(filePath, c) ==
  LET fileNode == createNode(filePath, "file", Last(Segs(filePath)), 1, "java", << >>)
      classNode == createNode(filePath, "class", c.class, 1, "java",
                              [isAbstract |-> FALSE])
      methodNode(f) == createNode(filePath, "method", Dotted(<<c.class, f.name>>),
                                  f.line, "java", [isStatic |-> FALSE])
  IN IF c.fail = "syntax" THEN [nodes |-> <<fileNode>>, edges |-> << >>]
     ELSE [nodes |-> <<fileNode, classNode>>
                     \o [i \in 1..Len(c.funcs) |-> methodNode(c.funcs[i])],
           edges |-> <<createEdge(fileNode.id, classNode.id, "contains", << >>)>>
                     \o Flatten([i \in 1..Len(c.funcs) |->
                          <<createEdge(classNode.id, methodNode(c.funcs[i]).id, "contains", << >>)>>
                          \o parseMethodBodyForCalls(c.funcs[i].calls, methodNode(c.funcs[i]).id)])]

\* ParserManager.parse: ok = FALSE is the null result
ParserManagerParse(filePath, c) ==
  LET ext == FileExtension(filePath)
      r == IF ext = ".java" THEN JavaParse(filePath, c) ELSE TypeScriptParse(filePath, c)
  IN IF ext \notin {".ts", ".tsx", ".js", ".jsx", ".mjs", ".cjs", ".java"}
       THEN [ok |-> FALSE, nodes |-> << >>, edges |-> << >>]
     ELSE IF c.fail = "throw"
       THEN [ok |-> FALSE, nodes |-> << >>, edges |-> << >>]
     ELSE [ok |-> TRUE, nodes |-> r.nodes, edges |-> r.edges]

-----------------------------------------------------------------------------
(* The store (src/db/schema.ts, GraphDatabase) on node and edge tables *)

\* target_id LIKE 'ref:%'
IsRef(targetId) == targetId[1] = "ref"

\* INSERT OR REPLACE INTO nodes, row by row, in one transaction
RECURSIVE insertNodes(_, _)
insertNodes(ns, batch) ==
  IF batch = << >> THEN ns
  ELSE insertNodes({n \in ns : n.id # Head(batch).id} \cup {Head(batch)}, Tail(batch))

\* a variant that stores a row whose id is taken under another id
RECURSIVE insertEdges_Duplicating(_, _)
insertEdges_Duplicating(es, batch) ==
  IF batch = << >> THEN es
  ELSE insertEdges_Duplicating(
         es \cup {IF \E e \in es : e.id = Head(batch).id
                    THEN [Head(batch) EXCEPT !.id = <<"dup", @>>]
                  ELSE Head(batch)},
         Tail(batch))

\* INSERT OR REPLACE INTO edges, row by row, in one transaction
RECURSIVE insertEdges(_, _)
insertEdges(es, batch) ==
  IF batch = << >> THEN es
  ELSE insertEdges({e \in es : e.id # Head(batch).id} \cup {Head(batch)}, Tail(batch))

\* deleteNodesByFile, first statement: SELECT id FROM nodes WHERE file_path = ?
SelectIdsByFile(ns, filePath) == {n.id : n \in {m \in ns : m.filePath = filePath}}

\* variants of the second statement of deleteNodesByFile: WHERE source_id IN
\* (ids); WHERE target_id IN (ids); and one that sweeps the placeholders too
DeleteEdgesOf_SourceOnly(es, ids) == {e \in es : e.sourceId \notin ids}

DeleteEdgesOf_TargetOnly(es, ids) == {e \in es : e.targetId \notin ids}

DeleteEdgesOf_AndPlaceholders(es, ids) ==
  {e \in es : e.sourceId \notin ids /\ e.targetId \notin ids /\ e.targetId[1] # "ref"}

\* deleteNodesByFile, second statement:
\* DELETE FROM edges WHERE source_id IN (ids) OR target_id IN (ids)
DeleteEdgesOf(es, ids) == {e \in es : e.sourceId \notin ids /\ e.targetId \notin ids}

\* deleteNodesByFile, third statement: DELETE FROM nodes WHERE file_path = ?
DeleteNodesOf(ns, filePath) == {n \in ns : n.filePath # filePath}

\* the three statements of deleteNodesByFile run to the end
deleteNodesByFile(ns, es, filePath) ==
  [nodes |-> DeleteNodesOf(ns, filePath),
   edges |-> DeleteEdgesOf(es, SelectIdsByFile(ns, filePath))]

getUnresolvedEdges(es) ==
  {e \in es : IsRef(e.targetId)
              \/ (Has(e.metadata, "unresolved") /\ e.metadata.unresolved = TRUE)}

updateEdgeTarget_ResolvedFromNew(es, edgeId, newTargetId, unresolved) ==
  {IF e.id # edgeId THEN e
   ELSE [e EXCEPT !.targetId = newTargetId,
                  !.metadata = ("unresolved" :> unresolved)
                               @@ ("resolvedFrom" :> newTargetId) @@ e.metadata]
   : e \in es}

updateEdgeTarget_NoResolvedFrom(es, edgeId, newTargetId, unresolved) ==
  {IF e.id # edgeId THEN e
   ELSE [e EXCEPT !.targetId = newTargetId,
                  !.metadata = ("unresolved" :> unresolved) @@ e.metadata]
   : e \in es}

updateEdgeTarget_KeepsUnresolved(es, edgeId, newTargetId, unresolved) ==
  {IF e.id # edgeId THEN e
   ELSE [e EXCEPT !.targetId = newTargetId,
                  !.metadata = ("unresolved" :> TRUE)
                               @@ ("resolvedFrom" :> e.targetId) @@ e.metadata]
   : e \in es}

updateEdgeTarget_Rehashing(es, edgeId, newTargetId, unresolved) ==
  {IF e.id # edgeId THEN e
   ELSE [e EXCEPT !.id = generateEdgeId(e.sourceId, newTargetId, e.type),
                  !.targetId = newTargetId,
                  !.metadata = IF unresolved
                               THEN ("unresolved" :> unresolved) @@ e.metadata
                               ELSE ("unresolved" :> unresolved)
                                    @@ ("resolvedFrom" :> e.targetId) @@ e.metadata]
   : e \in es}

updateEdgeTarget(es, edgeId, newTargetId, unresolved) ==
  {IF e.id # edgeId THEN e
   ELSE [e EXCEPT !.targetId = newTargetId,
                  !.metadata = IF unresolved
                               THEN ("unresolved" :> unresolved) @@ e.metadata
                               ELSE ("unresolved" :> unresolved)
                                    @@ ("resolvedFrom" :> e.targetId) @@ e.metadata]
   : e \in es}

updateEdgeMetadata(es, edgeId, metadata) ==
  {IF e.id # edgeId THEN e ELSE [e EXCEPT !.metadata = metadata] : e \in es}

getResolutionStats_BoundByResolver(es) ==
  [total |-> Cardinality(es),
   resolved |-> Cardinality({e \in es : Has(e.metadata, "resolvedFrom")}),
   unresolved |-> Cardinality({e \in es : IsRef(e.targetId)})]

\* getResolutionStats: SELECT COUNT(*) FROM edges, and the same WHERE
\* target_id LIKE 'ref:%'
getResolutionStats(es) ==
  LET total == Cardinality(es)
      unresolved == Cardinality({e \in es : IsRef(e.targetId)})
  IN [total |-> total, resolved |-> total - unresolved, unresolved |-> unresolved]

\* getFileContext: the nodes of the file and its cross-file edges
getFileContext(ns, es, filePath) ==
  LET nodeIds == SelectIdsByFile(ns, filePath)
  IN [nodes |-> {n \in ns : n.filePath = filePath},
      incomingEdges |-> {e \in es : e.targetId \in nodeIds /\ e.sourceId \notin nodeIds},
      outgoingEdges |-> {e \in es : e.sourceId \in nodeIds /\ e.targetId \notin nodeIds}]

-----------------------------------------------------------------------------
(* The resolver (src/resolver/index.ts, ReferenceResolver) *)

PathIdx(p) ==
  CHOOSE i \in 1..Len(ScanOrder \o PlacedOrder) : (ScanOrder \o PlacedOrder)[i] = p

TypeRank(t) ==
  CASE t = "file" -> 0 [] t = "import" -> 1 [] t = "class" -> 2
    [] t = "function" -> 3 [] t = "method" -> 4 [] OTHER -> 5

\* the position of a row in a scan of the nodes table
NodeKey(n) == PathIdx(n.filePath) * 1000 + n.lineStart * 10 + TypeRank(n.type)

\* SELECT * FROM nodes: the rows, in the order of a scan
RECURSIVE getAllNodes(_)
getAllNodes(ns) ==
  IF ns = {} THEN << >>
  ELSE With(CHOOSE n \in ns : \A m \in ns : NodeKey(n) <= NodeKey(m),
            LAMBDA first : <<first>> \o getAllNodes(ns \ {first}))

\* SELECT * FROM nodes WHERE type = ?, on the rows of the scan
getNodesByType(rows, type) == SelectSeq(rows, LAMBDA n : n.type = type)

getShortName(fullName) == Last(Parts(fullName))

getDirectory(filePath) == SubSeq(Segs(filePath), 1, Len(Segs(filePath)) - 1)

\* buildSymbolIndex: the entry of a node
SymbolEntry(n) ==
  [nodeId |-> n.id, name |-> getShortName(n.name), fullName |-> n.name,
   type |-> n.type, filePath |-> n.filePath, language |-> n.language,
   exported |-> Has(n.metadata, "isExported") /\ n.metadata.isExported]

\* buildSymbolIndex: the keys under which a node is indexed
IndexKeys(n) ==
  {getShortName(n.name), n.name}
  \cup (IF n.type = "method" /\ Len(Parts(n.name)) > 1
        THEN {Last(Parts(n.name))} ELSE {})
  \cup (IF Len(Parts(n.name)) = 2
        THEN {Dotted(<<Parts(n.name)[1], Parts(n.name)[2]>>)} ELSE {})

\* this.symbolIndex.get(key) || [], the index being built from the rows of
\* getAllNodes()
symbolIndexGet(rows, key) ==
  MapSeq(SelectSeq(rows, LAMBDA n : n.type \notin {"file", "import"}
                                    /\ key \in IndexKeys(n)),
         SymbolEntry)

\* buildImportExportMaps: the ImportInfo of an import node
ImportInfo(n) ==
  [filePath |-> n.filePath, moduleSpecifier |-> n.name,
   namedImports |-> IF Has(n.metadata, "namedImports")
                    THEN n.metadata.namedImports ELSE << >>]

\* this.fileImports.get(filePath) || []
fileImportsGet(rows, filePath) ==
  MapSeq(SelectSeq(getNodesByType(rows, "import"), LAMBDA n : n.filePath = filePath),
         ImportInfo)

\* cleanTargetName: one leading "this.", then "self.", then "super."
StripPrefix(name, prefix) ==
  IF Len(Parts(name)) > 1 /\ Parts(name)[1] = prefix
  THEN Dotted(Tail(Parts(name))) ELSE name

cleanTargetName(name) == StripPrefix(StripPrefix(StripPrefix(name, "this"), "self"), "super")

\* resolvePath, the loop over the parts of the relative path
RECURSIVE resolvePathLoop(_, _)
resolvePathLoop(parts, relParts) ==
  IF relParts = << >> THEN parts
  ELSE With(IF Head(relParts) = "." THEN parts
            ELSE IF Head(relParts) = ".."
              THEN (IF parts = << >> THEN parts ELSE SubSeq(parts, 1, Len(parts) - 1))
            ELSE Append(parts, Head(relParts)),
            LAMBDA stepped : resolvePathLoop(stepped, Tail(relParts)))

resolvePath(baseDir, relativePath) == resolvePathLoop(baseDir, Segs(relativePath))

\* path.replace(/\.[^/.]+$/, '') on the segments of a path
WithoutExt(segs) ==
  IF segs = << >> THEN segs
  ELSE SubSeq(segs, 1, Len(segs) - 1) \o <<StripExt(Last(segs))>>

\* s.startsWith(t + '/') on the segments of two paths
StartsWithDir(segs, dirSegs) ==
  dirSegs # << >> /\ Len(dirSegs) < Len(segs) /\ IsPrefix(dirSegs, segs)

\* moduleMatches for a relative module specifier (every import of the
\* modelled contents is relative)
moduleMatches(candidateFilePath, moduleSpecifier, sourceFilePath) ==
  With(resolvePath(getDirectory(sourceFilePath), moduleSpecifier),
       LAMBDA resolvedPath :
         \/ Segs(candidateFilePath) = resolvedPath
         \/ WithoutExt(Segs(candidateFilePath)) = WithoutExt(resolvedPath)
         \/ StartsWithDir(Segs(candidateFilePath), resolvedPath)
         \/ StartsWithDir(WithoutExt(Segs(candidateFilePath)), WithoutExt(resolvedPath)))

isCompatibleType_Any(nodeType, edgeType) == TRUE

isCompatibleType(nodeType, edgeType) ==
  CASE edgeType = "calls" -> nodeType \in {"function", "method", "endpoint"}
    [] edgeType = "uses" -> nodeType \in {"variable", "class", "interface", "function", "method"}
    [] edgeType = "extends" -> nodeType \in {"class", "interface"}
    [] edgeType = "implements" -> nodeType \in {"interface"}
    [] edgeType = "imports" -> nodeType \in {"module", "file", "class", "function", "variable"}
    [] edgeType \in {"autowires", "injects"} ->
         nodeType \in {"class", "interface", "service", "repository", "component", "controller"}
    [] OTHER -> TRUE

\* for each match: candidates.push(match) unless a candidate with the same
\* nodeId is there
RECURSIVE PushUnique(_, _)
PushUnique(candidates, matches) ==
  With(candidates, LAMBDA cs : With(matches, LAMBDA ms :
    IF ms = << >> THEN cs
    ELSE PushUnique(IF \E i \in 1..Len(cs) : cs[i].nodeId = Head(ms).nodeId
                    THEN cs ELSE Append(cs, Head(ms)),
                    Tail(ms))))

Undefined == "undefined"

\* namedImport.name and namedImport.alias: a property read on a bare string
\* yields undefined
NamedImportName(ni) == IF ni.form = "object" THEN ni.name ELSE Undefined
NamedImportAlias(ni) ==
  IF ni.form = "object" /\ Has(ni, "alias") THEN ni.alias ELSE Undefined

\* cleanName.startsWith(importedAs + '.')
StartsWithName(cleanName, importedAs) ==
  Len(Parts(cleanName)) > Len(Parts(importedAs))
  /\ SubSeq(Parts(cleanName), 1, Len(Parts(importedAs))) = Parts(importedAs)

\* findCandidates, "Check imports from the source file": the matches that
\* the named imports of the source file's imports contribute
ImportMatches(rows, cleanName, sourceNode) ==
  LET ofNamed(imp, ni) ==
        LET importedAs == IF NamedImportAlias(ni) # Undefined
                          THEN NamedImportAlias(ni) ELSE NamedImportName(ni)
            actualName == NamedImportName(ni)
        IN IF (importedAs # Undefined /\ cleanName = importedAs)
              \/ StartsWithName(cleanName, importedAs)
           THEN SelectSeq(IF actualName = Undefined THEN << >>
                          ELSE symbolIndexGet(rows, actualName),
                          LAMBDA m : moduleMatches(m.filePath, imp.moduleSpecifier,
                                                   sourceNode.filePath))
           ELSE << >>
      ofImport(imp) ==
        Flatten([k \in 1..Len(imp.namedImports) |-> ofNamed(imp, imp.namedImports[k])])
  IN With(fileImportsGet(rows, sourceNode.filePath),
          LAMBDA imps : Flatten([i \in 1..Len(imps) |-> ofImport(imps[i])]))

findCandidates(rows, targetName, sourceNode, edgeType) ==
  LET cleanName == cleanTargetName(targetName)
      parts == Parts(cleanName)
      direct == symbolIndexGet(rows, cleanName)
      withMethod ==
        IF Len(parts) > 1
        THEN PushUnique(PushUnique(direct, symbolIndexGet(rows, Last(parts))),
                        symbolIndexGet(rows, Dotted(<<parts[Len(parts) - 1], Last(parts)>>)))
        ELSE direct
      candidates == PushUnique(withMethod, ImportMatches(rows, cleanName, sourceNode))
  IN SelectSeq(candidates, LAMBDA c : isCompatibleType(c.type, edgeType))

calculateScore_NoDirectory(rows, candidate, sourceNode, targetName) ==
  (IF candidate.filePath = sourceNode.filePath THEN 100 ELSE 0)
  + (IF candidate.language = sourceNode.language THEN 30 ELSE 0)
  + (IF candidate.fullName = targetName \/ candidate.name = targetName
     THEN 40 ELSE 0)
  + (IF candidate.exported THEN 20 ELSE 0)
  + (IF With(fileImportsGet(rows, sourceNode.filePath), LAMBDA imps :
          \E i \in 1..Len(imps) :
             moduleMatches(candidate.filePath, imps[i].moduleSpecifier,
                           sourceNode.filePath))
     THEN 60 ELSE 0)
  + (IF Len(Parts(targetName)) > 1 /\ Len(Parts(candidate.fullName)) > 1
        /\ ToLower(Parts(targetName)[1]) = ToLower(Parts(candidate.fullName)[1])
     THEN 35 ELSE 0)

calculateScore(rows, candidate, sourceNode, targetName) ==
  (IF candidate.filePath = sourceNode.filePath THEN 100 ELSE 0)
  + (IF getDirectory(sourceNode.filePath) = getDirectory(candidate.filePath)
     THEN 50 ELSE 0)
  + (IF candidate.language = sourceNode.language THEN 30 ELSE 0)
  + (IF candidate.fullName = targetName \/ candidate.name = targetName
     THEN 40 ELSE 0)
  + (IF candidate.exported THEN 20 ELSE 0)
  + (IF With(fileImportsGet(rows, sourceNode.filePath), LAMBDA imps :
          \E i \in 1..Len(imps) :
             moduleMatches(candidate.filePath, imps[i].moduleSpecifier,
                           sourceNode.filePath))
     THEN 60 ELSE 0)
  + (IF Len(Parts(targetName)) > 1 /\ Len(Parts(candidate.fullName)) > 1
        /\ ToLower(Parts(targetName)[1]) = ToLower(Parts(candidate.fullName)[1])
     THEN 35 ELSE 0)

\* scored.sort((a, b) => b.score - a.score): stable, descending
RECURSIVE InsertByScore(_, _)
InsertByScore(sorted, x) ==
  IF sorted = << >> THEN <<x>>
  ELSE IF Head(sorted).score >= x.score THEN <<Head(sorted)>> \o InsertByScore(Tail(sorted), x)
       ELSE <<x>> \o sorted

RECURSIVE SortByScore(_, _)
SortByScore(sorted, rest) ==
  With(sorted, LAMBDA done : With(rest, LAMBDA left :
    IF left = << >> THEN done
    ELSE With(Head(left), LAMBDA x : SortByScore(InsertByScore(done, x), Tail(left)))))

Scored(rows, candidate, sourceNode, targetName) ==
  [entry |-> candidate, score |-> calculateScore(rows, candidate, sourceNode, targetName)]

rankCandidates(rows, candidates, sourceNode, targetName) ==
  SortByScore(<< >>, MapSeq(candidates,
                       LAMBDA c : Scored(rows, c, sourceNode, targetName)))

ClearWinner_AtLeast(topScore, secondScore) == topScore >= secondScore + 10

\* resolveEdge, the clear-winner test: ranked[0].score > ranked[1]?.score + 10
ClearWinner(topScore, secondScore) == topScore > secondScore + 10

NotResolved == [resolved |-> FALSE, ambiguous |-> FALSE]

\* resolveEdge, once the source node is in hand
resolveFrom(rows, edge, sourceNode) ==
  With(findCandidates(rows, edge.metadata.targetName, sourceNode, edge.type),
       LAMBDA candidates :
    IF Len(candidates) = 0 THEN NotResolved
    ELSE IF Len(candidates) = 1
      THEN [resolved |-> TRUE, ambiguous |-> FALSE, targetId |-> candidates[1].nodeId]
    ELSE With(rankCandidates(rows, candidates, sourceNode, edge.metadata.targetName),
              LAMBDA ranked :
           IF ClearWinner(ranked[1].score, ranked[2].score)
           THEN [resolved |-> TRUE, ambiguous |-> FALSE,
                 targetId |-> ranked[1].entry.nodeId]
           ELSE [resolved |-> FALSE, ambiguous |-> TRUE,
                 candidates |-> [i \in 1..(IF Len(ranked) < 5 THEN Len(ranked) ELSE 5) |->
                                   <<ranked[i].entry.fullName, ranked[i].entry.filePath>>]]))

\* resolveEdge; this.db.getNode(edge.sourceId) reads the table the rows
\* were read from
resolveEdge(rows, edge) ==
  IF ~Has(edge.metadata, "targetName") THEN NotResolved
  ELSE With(SelectSeq(rows, LAMBDA n : n.id = edge.sourceId), LAMBDA found :
         IF found = << >> THEN NotResolved ELSE resolveFrom(rows, edge, found[1]))

\* the rows of a table in the order of a scan
RECURSIVE EdgeRows(_)
EdgeRows(es) ==
  IF es = {} THEN << >>
  ELSE With(CHOOSE e \in es : TRUE, LAMBDA first : <<first>> \o EdgeRows(es \ {first}))

resolveStep_CandidatesOnly(rows, es, edge) ==
  With(resolveEdge(rows, edge), LAMBDA resolution :
    IF resolution.resolved
      THEN updateEdgeTarget(es, edge.id, resolution.targetId, FALSE)
    ELSE IF resolution.ambiguous
      THEN updateEdgeMetadata(es, edge.id, "ambiguousCandidates" :> resolution.candidates)
    ELSE es)

\* resolve(), the body of the loop for one unresolved edge
resolveStep(rows, es, edge) ==
  With(resolveEdge(rows, edge), LAMBDA resolution :
    IF resolution.resolved
      THEN updateEdgeTarget(es, edge.id, resolution.targetId, FALSE)
    ELSE IF resolution.ambiguous
      THEN updateEdgeMetadata(es, edge.id,
             ("ambiguousCandidates" :> resolution.candidates) @@ edge.metadata)
    ELSE es)

\* resolve(), the loop over the unresolved edges
RECURSIVE resolveLoop(_, _, _)
resolveLoop(rows, es, work) ==
  With(es, LAMBDA table : With(work, LAMBDA left :
    IF left = << >> THEN table
    ELSE resolveLoop(rows, resolveStep(rows, table, Head(left)), Tail(left))))

\* resolve(): buildSymbolIndex and buildImportExportMaps read the nodes
\* once, then the loop
resolve(ns, es) ==
  With(getAllNodes(ns), LAMBDA rows :
    resolveLoop(rows, es, EdgeRows(getUnresolvedEdges(es))))

-----------------------------------------------------------------------------
(* The commands: sync (src/cli/sync.ts), update, resolve, the watcher *)

NoSnapshot == [nodes |-> {}, edges |-> {}, hashes |-> [p \in Paths |-> NoHash]]

Snapshot == [nodes |-> nodes, edges |-> edges, hashes |-> hashes]

NoResult == [ok |-> FALSE, nodes |-> << >>, edges |-> << >>]

\* no command in progress
\* no McpLogger has been constructed
NoLogger ==
  [constructed |-> FALSE, enabled |-> FALSE, dirExists |-> FALSE, lines |-> << >>, reported |-> 0]

\* no timer is pending for a path
NoTimer == [eventType |-> "none", due |-> 0]

\* no event has been seen on a path
NoEvent == [eventType |-> "none", at |-> 0, many |-> FALSE, ran |-> 0, missed |-> FALSE,
            wrong |-> FALSE]

\* ParserManager.getLanguageForFile
getLanguageForFile(filePath) ==
  LET ext == FileExtension(filePath)
  IN IF ext \in {".ts", ".tsx"} THEN "typescript"
     ELSE IF ext \in {".js", ".jsx", ".mjs", ".cjs"} THEN "javascript"
     ELSE IF ext = ".py" THEN "python"
     ELSE IF ext = ".java" THEN "java"
     ELSE "null"

\* glob and chokidar on a pattern "dir/**": the files below dir
GlobMatches(pattern, p) ==
  CASE pattern = "a/**" -> Segs(p)[1] = "a"
    [] pattern = "b/**" -> Segs(p)[1] = "b"

\* DEFAULT_CONFIG with include and exclude emptied: every file of every language
WholeProject ==
  [include |-> {}, exclude |-> {},
   languages |-> {"typescript", "javascript", "python", "java"}]

\* getSourceFiles on disk d: the files some pattern yields (with no include
\* the patterns are **/*ext for the parsers' extensions, which every file of
\* the project matches), glob's ignore: config.exclude, the Set that removes
\* duplicates, and the filter on config.languages
getSourceFiles(d, cfg) ==
  SelectSeq(ScanOrder,
            LAMBDA p : /\ d[p].v # "absent"
                       /\ cfg.include # {} => \E g \in cfg.include : GlobMatches(g, p)
                       /\ \A g \in cfg.exclude : ~GlobMatches(g, p)
                       /\ getLanguageForFile(p) \in cfg.languages)

\* the tool server at startup: currentDb and currentProject are null, no
\* GraphDatabase has been constructed, no call has been answered
NoServer ==
  [currentDb |-> 0, currentProject |-> "null", handles |-> << >>,
   call |-> [targetProject |-> "", rejected |-> FALSE, db |-> 0,
             before |-> [currentDb |-> 0, currentProject |-> "null", open |-> FALSE]]]

\* the watcher before its first event
NoWatcher ==
  [now |-> 0, pending |-> [p \in Paths |-> NoTimer], last |-> [p \in Paths |-> NoEvent]]

Idle ==
  [cmd |-> "idle", step |-> "idle", mode |-> "none",
   dels |-> << >>,                           \* deletedFiles still to remove
   todo |-> << >>,                           \* filesToProcess still to parse
   looping |-> FALSE,                        \* filesToProcess.length > 0
   current |-> [p \in Paths |-> NoHash],     \* currentHashes
   result |-> NoResult,                      \* the parse result of the file
   processed |-> 0,                          \* sync's counter processed
   errors |-> 0,                             \* sync's counter errors
   \* history of the run
   scanned |-> {},            \* the files the scan found
   recorded |-> {},           \* syncRecorded when the run began
   unchanged |-> FALSE,       \* a sync without --full, and no file has changed
                              \* since the previous sync
   parsed |-> FALSE,          \* an extractor was called
   wrote |-> FALSE,           \* a write statement was executed
   failed |-> FALSE,          \* the extractor failed on the file in hand
   extractionFailed |-> 0,    \* the files of the run on which the extractor failed
   committed |-> 0,           \* the files of the run whose new nodes and edges
                              \* were inserted
   error |-> "none",          \* what became of an exception a store statement threw
   before |-> NoSnapshot]     \* the store when the file in hand was begun

\* the file in hand
CurPath == IF run.mode = "delete" THEN Head(run.dels) ELSE Head(run.todo)

\* where a run goes once the file in hand is finished
Continue(r) ==
  [r EXCEPT !.mode = "none", !.result = NoResult, !.failed = FALSE,
            !.before = NoSnapshot,
            !.step = IF r.dels # << >> \/ r.todo # << >> THEN "file"
                     ELSE IF r.cmd = "sync" /\ r.looping THEN "resolve"
                     ELSE "close"]

FinishDelete(r) == Continue([r EXCEPT !.dels = Tail(r.dels)])

FinishFile(r) == Continue([r EXCEPT !.todo = Tail(r.todo)])

\* somebody edits, creates or removes a file of the project: between two
\* runs, or during a sync between its hashing pass and its first file (a
\* change made later in the run has the effect of one made here or of one
\* made after the run)
DiskEdit ==
  /\ edits < MaxEdits
  /\ \/ run.cmd = "idle"
     \/ run.cmd = "sync" /\ run.step = "file" /\ ~run.parsed /\ ~run.wrote
  /\ \E p \in Paths : \E c \in ContentsOf(p) \cup {Absent} :
       /\ disk[p] # c
       /\ disk' = [disk EXCEPT ![p] = c]
  /\ dirty' = TRUE
  /\ edits' = edits + 1
  /\ UNCHANGED <<nodes, edges, hashes, run, observed, syncRecorded, settled, faults, config, logger, watcher, server, scope>>

\* syncCommand up to the removal of deleted files: the scan, the hashing pass
\* syncCommand(options) up to the list of the files to process; full is
\* options.full
SyncBegin(full) ==
  /\ config
  /\ run.cmd = "idle"
  /\   LET files == getSourceFiles(disk, scope)
           stored == [p \in Paths |-> IF full THEN NoHash ELSE hashes[p]]
           current == [p \in Paths |->
                         IF p \in Range(files) THEN Hash(disk[p]) ELSE NoHash]
           filesToProcess == SelectSeq(files,
                               LAMBDA p : stored[p] = NoHash \/ stored[p] # current[p])
           deletedFiles == SelectSeq(ScanOrder,
                             LAMBDA p : stored[p] # NoHash /\ current[p] = NoHash)
       IN run' = Continue([Idle EXCEPT !.cmd = "sync", !.dels = deletedFiles,
                             !.todo = filesToProcess,
                             !.looping = (filesToProcess # << >>),
                             !.current = current, !.scanned = Range(files),
                             !.recorded = syncRecorded,
                             !.unchanged = (~full /\ ~dirty)])
  /\ dirty' = FALSE
  /\ UNCHANGED <<disk, nodes, edges, hashes, observed, syncRecorded, settled, edits, faults, config, logger, watcher, server, scope>>

SyncStart == \E full \in BOOLEAN : SyncBegin(full)

\* updateCommand --file p, up to the parse
UpdateStart ==
  /\ config
  /\ run.cmd = "idle"
  /\ \E p \in Paths :
       LET r == [Idle EXCEPT !.cmd = "update"]
       IN run' = IF disk[p] = Absent
                   THEN Continue([r EXCEPT !.dels = <<p>>])
                 ELSE IF hashes[p] # NoHash /\ hashes[p] = Hash(disk[p])
                   THEN Continue(r)
                 ELSE Continue([r EXCEPT !.todo = <<p>>,
                                         !.current[p] = Hash(disk[p])])
  /\ UNCHANGED <<disk, nodes, edges, hashes, observed, dirty, syncRecorded, settled, edits, faults, config, logger, watcher, server, scope>>

\* watchCommand: the debounce timer of a path fires
WatchFire ==
  /\ config
  /\ run.cmd = "idle"
  /\ \E p \in Paths, eventType \in {"add", "change", "unlink"} :
       LET r == [Idle EXCEPT !.cmd = "watch"]
       IN /\ eventType = "unlink" => disk[p] = Absent
          /\ \A g \in scope.exclude : ~GlobMatches(g, p)
          /\ run' = IF eventType = "unlink"
                      THEN Continue([r EXCEPT !.dels = <<p>>])
                    ELSE IF disk[p] = Absent
                      THEN Continue(r)
                    ELSE IF hashes[p] # NoHash /\ hashes[p] = Hash(disk[p])
                      THEN Continue(r)
                    ELSE Continue([r EXCEPT !.todo = <<p>>,
                                            !.current[p] = Hash(disk[p])])
  /\ UNCHANGED <<disk, nodes, edges, hashes, observed, dirty, syncRecorded, settled, edits, faults, config, logger, watcher, server, scope>>

\* the call of deleteNodesByFile for a file that is gone
BeginDelete ==
  /\ run.step = "file"
  /\ run.dels # << >>
  /\ run' = [run EXCEPT !.step = "delEdges", !.mode = "delete", !.before = Snapshot]
  /\ UNCHANGED <<disk, nodes, edges, hashes, observed, dirty, syncRecorded, settled, edits, faults, config, logger, watcher, server, scope>>

\* the head of the per-file loop: read the file, parse it
ParseFile ==
  /\ run.step = "file"
  /\ run.dels = << >>
  /\ run.todo # << >>
  /\ LET p == Head(run.todo)
         result == ParserManagerParse(p, disk[p])
     IN run' = IF disk[p] = Absent
                 \* readFileSync throws, the catch of the loop counts it
                 THEN FinishFile([run EXCEPT !.errors = @ + 1])
               ELSE IF ~result.ok
                 \* parse returned null: the body of if (result) is skipped
                 THEN FinishFile([run EXCEPT !.parsed = TRUE,
                                             !.extractionFailed = @ + 1])
               ELSE [run EXCEPT !.step = "delEdges", !.mode = "reparse",
                                !.result = result, !.parsed = TRUE,
                                !.failed = (disk[p].fail # "none"),
                                !.extractionFailed =
                                   IF disk[p].fail # "none" THEN @ + 1 ELSE @,
                                !.before = Snapshot]
  /\ UNCHANGED <<disk, nodes, edges, hashes, observed, dirty, syncRecorded, settled, edits, faults, config, logger, watcher, server, scope>>

\* deleteNodesByFile: SELECT the ids; DELETE the edges if there is an id
DeleteEdgesStep ==
  /\ run.step = "delEdges"
  /\ LET ids == SelectIdsByFile(nodes, CurPath)
     IN /\ edges' = IF ids # {} THEN DeleteEdgesOf(edges, ids) ELSE edges
        /\ run' = [run EXCEPT !.step = "delNodes", !.wrote = @ \/ ids # {}]
  /\ settled' = FALSE
  /\ UNCHANGED <<disk, nodes, hashes, observed, dirty, syncRecorded, edits, faults, config, logger, watcher, server, scope>>

\* deleteNodesByFile: DELETE the nodes
DeleteNodesStep ==
  /\ run.step = "delNodes"
  /\ nodes' = DeleteNodesOf(nodes, CurPath)
  /\ run' = [run EXCEPT !.step = IF run.mode = "delete" THEN "delHash" ELSE "insNodes",
                        !.wrote = TRUE]
  /\ settled' = FALSE
  /\ UNCHANGED <<disk, edges, hashes, observed, dirty, syncRecorded, edits, faults, config, logger, watcher, server, scope>>

deleteFileHash(hs, path) == [hs EXCEPT ![path] = NoHash]

setFileHash(hs, path, hash) == [hs EXCEPT ![path] = hash]

DeleteFileHashStep ==
  /\ run.step = "delHash"
  /\ hashes' = deleteFileHash(hashes, CurPath)
  /\ syncRecorded' = syncRecorded \ {CurPath}
  /\ run' = FinishDelete([run EXCEPT !.wrote = TRUE])
  /\ settled' = FALSE
  /\ UNCHANGED <<disk, nodes, edges, observed, dirty, edits, faults, config, logger, watcher, server, scope>>

InsertNodesStep ==
  /\ run.step = "insNodes"
  /\ nodes' = insertNodes(nodes, run.result.nodes)
  /\ run' = [run EXCEPT !.step = "insEdges", !.wrote = TRUE]
  /\ settled' = FALSE
  /\ UNCHANGED <<disk, edges, hashes, observed, dirty, syncRecorded, edits, faults, config, logger, watcher, server, scope>>

InsertEdgesStep ==
  /\ run.step = "insEdges"
  /\ edges' = insertEdges(edges, run.result.edges)
  /\ run' = [run EXCEPT !.step = "setHash", !.wrote = TRUE, !.committed = @ + 1]
  /\ settled' = FALSE
  /\ UNCHANGED <<disk, nodes, hashes, observed, dirty, syncRecorded, edits, faults, config, logger, watcher, server, scope>>

SetFileHashStep ==
  /\ run.step = "setHash"
  /\ hashes' = setFileHash(hashes, CurPath, run.current[CurPath])
  /\ syncRecorded' = IF run.cmd = "sync" THEN syncRecorded \cup {CurPath}
                     ELSE syncRecorded
  /\ run' = FinishFile([run EXCEPT !.wrote = TRUE, !.processed = @ + 1])
  /\ settled' = FALSE
  /\ UNCHANGED <<disk, nodes, edges, observed, dirty, edits, faults, config, logger, watcher, server, scope>>

\* resolve() executes an UPDATE for the edges it resolves or finds ambiguous
ResolveWrites(ns, es) ==
  With(getAllNodes(ns), LAMBDA rows :
    \E e \in getUnresolvedEdges(es) :
      With(resolveEdge(rows, e), LAMBDA resolution :
        resolution.resolved \/ resolution.ambiguous))

\* syncCommand, phase 2, without --skip-resolve: resolver.resolve()
SyncResolve ==
  /\ run.step = "resolve"
  /\ edges' = resolve(nodes, edges)
  /\ run' = [run EXCEPT !.step = "close", !.wrote = @ \/ ResolveWrites(nodes, edges)]
  /\ settled' = TRUE
  /\ UNCHANGED <<disk, nodes, hashes, observed, dirty, syncRecorded, edits, faults, config, logger, watcher, server, scope>>

\* syncCommand, phase 2, with --skip-resolve
SyncSkipResolve ==
  /\ run.step = "resolve"
  /\ run' = [run EXCEPT !.step = "close"]
  /\ UNCHANGED <<disk, nodes, edges, hashes, observed, dirty, syncRecorded, settled, edits,
                 faults, config, logger, watcher, server, scope>>

\* db.close() and return
Close ==
  /\ run.step = "close"
  /\ run' = Idle
  /\ UNCHANGED <<disk, nodes, edges, hashes, observed, dirty, syncRecorded, settled, edits, faults, config, logger, watcher, server, scope>>

\* resolveCommand
ResolveCommand ==
  /\ config
  /\ run.cmd = "idle"
  /\ edges' = resolve(nodes, edges)
  /\ settled' = TRUE
  /\ UNCHANGED <<disk, nodes, hashes, run, observed, dirty, syncRecorded, edits, faults, config, logger, watcher, server, scope>>

NoView == [path |-> "", nodes |-> {}, incomingEdges |-> {}, outgoingEdges |-> {}]

\* the tool server, another process on the same database file, answers
\* get_file_context for the file a run has in hand
GetFileContextTool ==
  /\ config
  /\ run.mode \in {"delete", "reparse"}
  /\ LET context == getFileContext(nodes, edges, CurPath)
     IN observed' = [path |-> CurPath, nodes |-> context.nodes,
                     incomingEdges |-> context.incomingEdges,
                     outgoingEdges |-> context.outgoingEdges]
  /\ UNCHANGED <<disk, nodes, edges, hashes, run, dirty, syncRecorded, settled, edits, faults, config, logger, watcher, server, scope>>

\* a statement of the store throws (SQLITE_BUSY, SQLITE_FULL, an I/O error):
\* the statement, or the transaction of an insert batch, has no effect.  In
\* the per-file try of sync, update and the watcher the exception is caught
\* and the run goes on (sync prints it unless --quiet); in sync's loop over
\* deletedFiles, in update's branch for a missing file and in the watcher's
\* unlink branch nothing catches it and the process ends.
WriteFails ==
  /\ run.step \in {"delEdges", "delNodes", "delHash", "insNodes", "insEdges", "setHash"}
  /\ run.step = "delEdges" => SelectIdsByFile(nodes, CurPath) # {}
  /\ faults < MaxFaults
  /\ faults' = faults + 1
  /\ \E quiet \in BOOLEAN :
       run' = IF run.mode = "delete" THEN [Idle EXCEPT !.error = "uncaught"]
              ELSE FinishFile([run EXCEPT !.errors = @ + 1,
                                          !.error = IF run.cmd = "sync" /\ quiet
                                                    THEN "silent" ELSE "printed"])
  /\ UNCHANGED <<disk, nodes, edges, hashes, observed, dirty, syncRecorded, settled, edits,
                 config, logger, watcher, server, scope>>

Init ==
  /\ disk \in {d \in [Paths -> UNION {ContentsOf(p) : p \in Paths}] :
                 \A p \in Paths : d[p] \in ContentsOf(p) /\ d[p].fail = "none"}
  /\ nodes = {}
  /\ edges = {}
  /\ hashes = [p \in Paths |-> NoHash]
  /\ run = Idle
  /\ observed = NoView
  /\ dirty = TRUE
  /\ syncRecorded = {}
  /\ settled = FALSE
  /\ edits = 0
  /\ faults = 0
  /\ config = TRUE
  /\ logger = NoLogger
  /\ watcher = NoWatcher
  /\ server = NoServer
  /\ scope = WholeProject

Next ==
  \/ DiskEdit
  \/ SyncStart
  \/ UpdateStart
  \/ WatchFire
  \/ BeginDelete
  \/ ParseFile
  \/ DeleteEdgesStep
  \/ DeleteNodesStep
  \/ DeleteFileHashStep
  \/ InsertNodesStep
  \/ InsertEdgesStep
  \/ SetFileHashStep
  \/ SyncResolve
  \/ SyncSkipResolve
  \/ Close
  \/ ResolveCommand

Spec == Init /\ [][Next]_vars

\* the commands with a reader on the database
SpecReader == Init /\ [][Next \/ GetFileContextTool]_vars

\* creations, edits and deletions of files, and syncs without --full and
\* with their resolve pass
SpecIncremental ==
  Init /\ [][DiskEdit \/ SyncBegin(FALSE) \/ BeginDelete \/ ParseFile \/ DeleteEdgesStep
             \/ DeleteNodesStep \/ DeleteFileHashStep \/ InsertNodesStep \/ InsertEdgesStep
             \/ SetFileHashStep \/ SyncResolve \/ Close]_vars

\* the commands on a store whose statements may fail
SpecFaults == Init /\ [][Next \/ WriteFails]_vars

\* The second project: the three files are taken into the store one by one
\* (code-graph update --file p, the whole command), then code-graph resolve
\* runs once.
InitPlaced ==
  /\ \E h \in HPaths, g \in GPaths, eh \in BOOLEAN, eg \in BOOLEAN :
       disk = (PC :> CallerC) @@ (h :> HelperC(eh)) @@ (g :> HelperC(eg))
  /\ nodes = {}
  /\ edges = {}
  /\ hashes = [p \in DOMAIN disk |-> NoHash]
  /\ run = Idle
  /\ observed = NoView
  /\ dirty = TRUE
  /\ syncRecorded = {}
  /\ settled = FALSE
  /\ edits = 0
  /\ faults = 0
  /\ config = TRUE
  /\ logger = NoLogger
  /\ watcher = NoWatcher
  /\ server = NoServer
  /\ scope = WholeProject

\* updateCommand for a file not yet in the store
UpdatePlaced ==
  /\ config
  /\ \E p \in DOMAIN disk :
       /\ hashes[p] = NoHash
       /\ LET result == ParserManagerParse(p, disk[p])
              deleted == deleteNodesByFile(nodes, edges, p)
          IN /\ result.ok
             /\ nodes' = insertNodes(deleted.nodes, result.nodes)
             /\ edges' = insertEdges(deleted.edges, result.edges)
             /\ hashes' = setFileHash(hashes, p, Hash(disk[p]))
  /\ settled' = FALSE
  /\ UNCHANGED <<disk, run, observed, dirty, syncRecorded, edits, faults, config, logger, watcher, server, scope>>

\* resolveCommand, once the three files are in the store
ResolvePlaced ==
  /\ config
  /\ \A p \in DOMAIN disk : hashes[p] # NoHash
  /\ ~settled
  /\ edges' = resolve(nodes, edges)
  /\ settled' = TRUE
  /\ UNCHANGED <<disk, nodes, hashes, run, observed, dirty, syncRecorded, edits, faults, config, logger, watcher, server, scope>>

SpecPlaced == InitPlaced /\ [][UpdatePlaced \/ ResolvePlaced]_vars

-----------------------------------------------------------------------------
(* get_editing_context (src/utils/token-estimator.ts, GraphDatabase.getEditingContext) *)

\* A text is the sequence of its characters; "nl" is the newline.
Texts ==
  UNION {{[i \in 1..n |-> "a"]} \cup {[i \in 1..n |-> IF i = k THEN "nl" ELSE "a"] : k \in 1..n}
         : n \in 0..MaxChars}

\* the default truncationIndicator, '\n... [truncated]'
TruncationIndicator ==
  <<"nl", ".", ".", ".", " ", "[", "t", "r", "u", "n", "c", "a", "t", "e", "d", "]">>

\* estimateTokens: Math.ceil(text.length / 4)
estimateTokens(text) == IF Len(text) = 0 THEN 0 ELSE (Len(text) + 3) \div 4

\* text.slice(0, end): a negative end counts from the end of the text
Slice(text, end) ==
  LET n == Len(text)
      to == IF end < 0 THEN (IF n + end < 0 THEN 0 ELSE n + end)
            ELSE IF end > n THEN n ELSE end
  IN SubSeq(text, 1, to)

\* text.lastIndexOf('\n'): the 0-based index, -1 if there is none
LastIndexOfNewline(text) ==
  IF \A i \in 1..Len(text) : text[i] # "nl" THEN -1
  ELSE (CHOOSE i \in 1..Len(text) :
          text[i] = "nl" /\ \A j \in (i + 1)..Len(text) : text[j] # "nl") - 1

\* truncateToTokenLimit
truncateToTokenLimit(text, maxTokens) ==
  LET indicatorTokens == estimateTokens(TruncationIndicator)
      availableTokens == maxTokens - indicatorTokens
      charLimit == availableTokens * 4
      sliced == Slice(text, charLimit)
      lastNewline == LastIndexOfNewline(sliced)
      truncatedText == IF lastNewline * 10 > charLimit * 8
                       THEN Slice(sliced, lastNewline) ELSE sliced
  IN IF estimateTokens(text) <= maxTokens
       THEN [text |-> text, wasTruncated |-> FALSE]
     ELSE [text |-> truncatedText \o TruncationIndicator, wasTruncated |-> TRUE]

\* the loops of getEditingContext over imports, dependents and related
\* types: a snippet of codeTokens tokens is taken if used + codeTokens <
\* budget; the result is the tokens used
RECURSIVE TokensUsed(_, _, _)
TokensUsed(sizes, used, budget) ==
  IF sizes = << >> THEN used
  ELSE TokensUsed(Tail(sizes),
                  IF used + Head(sizes) < budget THEN used + Head(sizes) ELSE used,
                  budget)

\* the token sizes of the snippets the store offers to one of the loops
SnippetSizes == {<< >>, <<1>>, <<2, 1>>}

\* getEditingContext for a positive maxTokens; the snippets of similar
\* functions are not subtracted from remainingTokens and do not count
getEditingContext(content, maxTokens, importSizes, dependentSizes, typeSizes) ==
  LET targetTokenBudget == (maxTokens * 6) \div 10
      truncatedTarget == truncateToTokenLimit(content, targetTokenBudget)
      afterTarget == maxTokens - estimateTokens(truncatedTarget.text)
      importTokensUsed == TokensUsed(importSizes, 0, (afterTarget * 3) \div 10)
      afterImports == afterTarget - importTokensUsed
      dependentTokensUsed == TokensUsed(dependentSizes, 0, (afterImports * 3) \div 10)
      afterDependents == afterImports - dependentTokensUsed
      typeTokensUsed == TokensUsed(typeSizes, 0, afterDependents \div 2)
      remainingTokens == afterDependents - typeTokensUsed
  IN [content |-> truncatedTarget.text,
      wasTruncated |-> truncatedTarget.wasTruncated,
      token_estimate |-> maxTokens - remainingTokens]

\* the target file is on disk; nothing has been asked yet
InitContext ==
  /\ \E text \in Texts : disk = (PX :> [text |-> text])
  /\ nodes = {}
  /\ edges = {}
  /\ hashes = (PX :> NoHash)
  /\ run = Idle
  /\ observed = NoView
  /\ dirty = TRUE
  /\ syncRecorded = {}
  /\ settled = FALSE
  /\ edits = 0
  /\ faults = 0
  /\ config = TRUE
  /\ logger = NoLogger
  /\ watcher = NoWatcher
  /\ server = NoServer
  /\ scope = WholeProject

\* the tool server answers get_editing_context(file_path, max_tokens)
GetEditingContextTool ==
  /\ config
  /\ \E max_tokens \in 1..MaxBudget, importSizes \in SnippetSizes,
        dependentSizes \in SnippetSizes, typeSizes \in SnippetSizes :
       LET result == getEditingContext(disk[PX].text, max_tokens, importSizes,
                                       dependentSizes, typeSizes)
       IN observed' = [tool |-> "get_editing_context", max_tokens |-> max_tokens,
                       content |-> result.content,
                       wasTruncated |-> result.wasTruncated,
                       token_estimate |-> result.token_estimate]
  /\ UNCHANGED <<disk, nodes, edges, hashes, run, dirty, syncRecorded, settled, edits, faults, config, logger, watcher, server, scope>>

SpecContext == InitContext /\ [][GetEditingContextTool]_vars

-----------------------------------------------------------------------------
(* The tool server (src/cli/serve.ts, the CallToolRequest handler) *)

Tools ==
  {"get_file_context", "search_symbols", "find_references", "get_call_graph",
   "get_by_type", "get_graph_stats", "get_impact_analysis", "get_source_code",
   "get_usage_examples", "get_editing_context"}

\* name LIKE '%query%' for the names of the project and the queries asked
NameLike(name, query) == query = "helper" /\ name \in {"helper", "J.helper"}

\* searchNodes
searchNodes(ns, query) == {n \in ns : NameLike(n.name, query)}

\* getSourceCode returns null: no node has the id, or no name is like the
\* symbol
SourceCodeIsNull(ns, symbolName, nodeId) ==
  IF nodeId # Undefined THEN \A n \in ns : n.id # nodeId
  ELSE IF symbolName # Undefined THEN searchNodes(ns, symbolName) = {}
  ELSE TRUE

\* a response: the error field of its JSON payload ("none" if it has none)
\* and its isError flag (FALSE if the response has none)
Response(tool, error, isError) == [tool |-> tool, error |-> error, isError |-> isError]

\* The handler of a tool call.  args.given tells whether the request has an
\* arguments object; its field symbol stands for function_name, symbol_name
\* or file_path.
CallTool(name, args, ns, initialised) ==
  IF name \notin Tools
    THEN Response(name, "Unknown tool", TRUE)
  ELSE IF ~initialised
    \* getDb throws, the catch of the handler answers
    THEN Response(name, "Project not initialized", TRUE)
  ELSE IF ~args.given /\ name # "get_graph_stats"
    \* reading a property of undefined throws a TypeError
    THEN Response(name, "TypeError", TRUE)
  ELSE IF name = "get_call_graph"
    THEN IF searchNodes(ns, args.symbol) = {}
           THEN Response(name, "Function not found", FALSE)
         ELSE Response(name, "none", FALSE)
  ELSE IF name = "get_source_code"
    THEN IF args.symbol = Undefined /\ args.node_id = Undefined
           THEN Response(name, "Either symbol_name or node_id is required", TRUE)
         ELSE IF SourceCodeIsNull(ns, args.symbol, args.node_id)
           THEN Response(name, "Symbol not found", FALSE)
         ELSE Response(name, "none", FALSE)
  ELSE Response(name, "none", FALSE)

\* the arguments of the calls made
ToolArgs ==
  [given : {TRUE}, symbol : {"helper", "missing", Undefined}, node_id : {"nope", Undefined}]
    \cup [given : {FALSE}, symbol : {Undefined}, node_id : {Undefined}]

\* the store after code-graph update of the files of done, in scan order
RECURSIVE StoreAfterUpdates(_, _, _)
StoreAfterUpdates(d, done, files) ==
  IF files = << >> THEN [nodes |-> {}, edges |-> {}]
  ELSE LET rest == StoreAfterUpdates(d, done, Tail(files))
           result == ParserManagerParse(Head(files), d[Head(files)])
       IN IF Head(files) \notin done THEN rest
          ELSE [nodes |-> insertNodes(rest.nodes, result.nodes),
                edges |-> insertEdges(rest.edges, result.edges)]

\* the server starts in a project: not initialised, or initialised with
\* some of its files in the store
InitServe ==
  /\ disk \in {d \in [Paths -> UNION {ContentsOf(p) : p \in Paths}] :
                 \A p \in Paths : d[p] \in ContentsOf(p) /\ d[p].fail = "none"}
  /\ config \in BOOLEAN
  /\ logger = NoLogger
  /\ watcher = NoWatcher
  /\ server = NoServer
  /\ scope = WholeProject
  /\ \E done \in SUBSET Paths :
       /\ ~config => done = {}
       /\ nodes = StoreAfterUpdates(disk, done, ScanOrder).nodes
       /\ edges = StoreAfterUpdates(disk, done, ScanOrder).edges
       /\ hashes = [p \in Paths |-> IF p \in done THEN Hash(disk[p]) ELSE NoHash]
  /\ run = Idle
  /\ observed = NoView
  /\ dirty = TRUE
  /\ syncRecorded = {}
  /\ settled = FALSE
  /\ edits = 0
  /\ faults = 0

\* the server answers a tool call
CallToolRequest ==
  /\ \E name \in Tools \cup {"no_such_tool"}, args \in ToolArgs :
       observed' = CallTool(name, args, nodes, config)
  /\ UNCHANGED <<disk, nodes, edges, hashes, run, dirty, syncRecorded, settled, edits, faults,
                 config, logger, watcher, server, scope>>

SpecServe == InitServe /\ [][CallToolRequest]_vars

-----------------------------------------------------------------------------
(* The command line in a directory where code-graph init has not run yet *)

NotInitializedMessage == "Project not initialized. Run code-graph init first."

\* how a command ends: its exit code and what it wrote on stderr
Exit(command, exitCode, message) ==
  [command |-> command, exitCode |-> exitCode, message |-> message]

\* the branch each command takes when .code-graph/config.json is missing;
\* status runs queryCommand('stats')
ExitUninitialised(command) ==
  CASE command = "sync"    -> Exit(command, 1, NotInitializedMessage)
    [] command = "resolve" -> Exit(command, 1, NotInitializedMessage)
    [] command = "query"   -> Exit(command, 1, NotInitializedMessage)
    [] command = "status"  -> Exit(command, 1, NotInitializedMessage)
    [] command = "watch"   -> Exit(command, 1, NotInitializedMessage)
    \* updateCommand returns: nothing is written, the process ends normally
    [] command = "update"  -> Exit(command, 0, "")

NeedsProject == {"sync", "update", "query", "resolve", "watch", "status"}

InitCli ==
  /\ disk \in {d \in [Paths -> UNION {ContentsOf(p) : p \in Paths}] :
                 \A p \in Paths : d[p] \in ContentsOf(p) /\ d[p].fail = "none"}
  /\ nodes = {}
  /\ edges = {}
  /\ hashes = [p \in Paths |-> NoHash]
  /\ run = Idle
  /\ observed = NoView
  /\ dirty = TRUE
  /\ syncRecorded = {}
  /\ settled = FALSE
  /\ edits = 0
  /\ faults = 0
  /\ config = FALSE
  /\ logger = NoLogger
  /\ watcher = NoWatcher
  /\ server = NoServer
  /\ scope = WholeProject

\* a command that needs the project is run before init
CommandUninitialised ==
  /\ ~config
  /\ \E command \in NeedsProject : observed' = ExitUninitialised(command)
  /\ UNCHANGED <<disk, nodes, edges, hashes, run, dirty, syncRecorded, settled, edits, faults,
                 config, logger, watcher, server, scope>>

\* code-graph init [--force]: writes config.json and opens the store
InitCommand ==
  /\ \E force \in BOOLEAN : ~config \/ force
  /\ config' = TRUE
  /\ observed' = Exit("init", 0, "")
  /\ UNCHANGED <<disk, nodes, edges, hashes, run, dirty, syncRecorded, settled, edits, faults, logger, watcher, server, scope>>

SpecCli == InitCli /\ [][CommandUninitialised \/ InitCommand \/ Next]_vars

-----------------------------------------------------------------------------
(* McpLogger (src/utils/token-estimator.ts) *)

MaxLogLines == 3

\* what the environment does to a call: nothing, or one of its steps fails
LogFaults == {"none", "mkdir", "append"}

\* what JSON.stringify does with a value: a string, a throw (a circular
\* structure, a BigInt), or undefined (the value undefined)
Values == {"plain", "circular", "undefined"}
Stringify(value) ==
  CASE value = "plain"     -> "string"
    [] value = "circular"  -> "throws"
    [] value = "undefined" -> "undefined"

\* the outcome of a call: it returned, or an exception left it
Outcome(call, threw) == [call |-> call, threw |-> threw]

\* write(entry): stringifies the entry and appends the line, inside a try
\* whose catch reports on stderr
write(lg, type, value, fault) ==
  IF ~lg.enabled THEN lg
  ELSE IF Stringify(value) = "throws" \/ fault = "append"
    THEN [lg EXCEPT !.reported = @ + 1]
  ELSE [lg EXCEPT !.lines = Append(@, type)]

InitLogger ==
  /\ disk \in {d \in [Paths -> UNION {ContentsOf(p) : p \in Paths}] :
                 \A p \in Paths : d[p] \in ContentsOf(p) /\ d[p].fail = "none"}
  /\ nodes = {}
  /\ edges = {}
  /\ hashes = [p \in Paths |-> NoHash]
  /\ run = Idle
  /\ observed = NoView
  /\ dirty = TRUE
  /\ syncRecorded = {}
  /\ settled = FALSE
  /\ edits = 0
  /\ faults = 0
  /\ config = TRUE
  /\ \E dirExists \in BOOLEAN : logger = [NoLogger EXCEPT !.dirExists = dirExists]
  /\ watcher = NoWatcher
  /\ server = NoServer
  /\ scope = WholeProject

\* new McpLogger(options)
McpLoggerConstructor ==
  /\ ~logger.constructed
  /\ \E enabled \in BOOLEAN, fault \in LogFaults :
       IF enabled /\ ~logger.dirExists /\ fault = "mkdir"
         \* mkdirSync throws: no logger is made
         THEN /\ observed' = Outcome("constructor", TRUE)
              /\ UNCHANGED logger
         ELSE /\ observed' = Outcome("constructor", FALSE)
              /\ logger' = [logger EXCEPT !.constructed = TRUE, !.enabled = enabled,
                                          !.dirExists = @ \/ enabled]
  /\ UNCHANGED <<disk, nodes, edges, hashes, run, dirty, syncRecorded, settled, edits, faults,
                 config, watcher, server, scope>>

\* logRequest(tool, args)
logRequest ==
  /\ logger.constructed
  /\ Len(logger.lines) < MaxLogLines /\ logger.reported < MaxLogLines
  /\ \E args \in Values \ {"undefined"}, fault \in LogFaults :
       /\ logger' = write(logger, "request", args, fault)
       /\ observed' = Outcome("logRequest", FALSE)
  /\ UNCHANGED <<disk, nodes, edges, hashes, run, dirty, syncRecorded, settled, edits, faults,
                 config, watcher, server, scope>>

\* logResponse(tool, result, startTime, error)
logResponse ==
  /\ logger.constructed
  /\ Len(logger.lines) < MaxLogLines /\ logger.reported < MaxLogLines
  /\ \E result \in Values, fault \in LogFaults :
       IF Stringify(result) = "throws" \/ Stringify(result) = "undefined"
         \* JSON.stringify(result) throws, or resultStr.length reads a
         \* property of undefined: both stand before write and its try
         THEN /\ observed' = Outcome("logResponse", TRUE)
              /\ UNCHANGED logger
         ELSE /\ logger' = write(logger, "response", result, fault)
              /\ observed' = Outcome("logResponse", FALSE)
  /\ UNCHANGED <<disk, nodes, edges, hashes, run, dirty, syncRecorded, settled, edits, faults,
                 config, watcher, server, scope>>

SpecLogger == InitLogger /\ [][McpLoggerConstructor \/ logRequest \/ logResponse]_vars

-----------------------------------------------------------------------------
(* A third project: a class S in a/x.ts with one reference of each edge
   type to the name T, and declarations named T, of each node type, in
   a/y.js and b/J.java *)

EdgeTypes ==
  {"calls", "uses", "extends", "implements", "imports", "autowires", "injects", "references"}

NodeTypes ==
  {"function", "method", "endpoint", "variable", "class", "interface", "module",
   "service", "repository", "component", "controller"}

Languages == (PX :> "typescript") @@ (PY :> "javascript") @@ (PJ :> "java")

\* what an extractor emits for a file with one declaration: the file node,
\* the declared node, the contains edge, and for a reference to another
\* name an unresolved edge with its placeholder target
ParseDeclaration(filePath, type, name, refs) ==
  LET fileNode == createNode(filePath, "file", Last(Segs(filePath)), 1,
                             Languages[filePath], << >>)
      declNode == createNode(filePath, type, name, 2, Languages[filePath],
                             [isExported |-> TRUE])
  IN [nodes |-> <<fileNode, declNode>>,
      edges |-> <<createEdge(fileNode.id, declNode.id, "contains", << >>)>>
                \o [i \in 1..Len(refs) |->
                      createEdge(declNode.id, <<"ref", "class", refs[i].name>>, refs[i].type,
                                 [unresolved |-> TRUE, targetName |-> refs[i].name])]]

\* the store after a sync of the three files
InitTyped ==
  /\ \E edgeType \in EdgeTypes, t1 \in NodeTypes, t2 \in NodeTypes \cup {"none"} :
       LET source == ParseDeclaration(PX, "class", "S", <<[type |-> edgeType, name |-> "T"]>>)
           first == ParseDeclaration(PY, t1, "T", << >>)
           second == IF t2 = "none" THEN [nodes |-> << >>, edges |-> << >>]
                     ELSE ParseDeclaration(PJ, t2, "T", << >>)
       IN /\ disk = [p \in Paths |->
                      [v |-> CASE p = PX -> <<"S", edgeType>> [] p = PY -> <<"T", t1>>
                                  [] p = PJ -> <<"T", t2>>,
                       fail |-> "none"]]
          /\ nodes = insertNodes(insertNodes(insertNodes({}, source.nodes), first.nodes),
                                 second.nodes)
          /\ edges = insertEdges(insertEdges(insertEdges({}, source.edges), first.edges),
                                 second.edges)
          /\ hashes = [p \in Paths |-> Hash(disk[p])]
  /\ run = Idle
  /\ observed = NoView
  /\ dirty = FALSE
  /\ syncRecorded = Paths
  /\ settled = FALSE
  /\ edits = 0
  /\ faults = 0
  /\ config = TRUE
  /\ logger = NoLogger
  /\ watcher = NoWatcher
  /\ server = NoServer
  /\ scope = WholeProject

SpecTyped == InitTyped /\ [][ResolveCommand]_vars

-----------------------------------------------------------------------------
(* A fourth project: a/x.ts imports helper from another file, under its own
   name or under the alias h, and calls it; a/y.js and b/J.java define it *)

\* import { helper } from spec, or import { helper as h } from spec, and
\* a function that makes one call.  aliases holds, for each named import,
\* the alias written in the source ("none" without one); the extractor
\* does not read it.
ImporterX(spec, alias, call) ==
  [v |-> <<"XI", spec, alias, call>>, fail |-> "none", class |-> "",
   imports |-> << [spec |-> spec, named |-> << "helper" >>, aliases |-> << alias >>,
                   line |-> 1] >>,
   funcs |-> << [name |-> "use", line |-> 2, exported |-> TRUE,
                 calls |-> << [name |-> call, line |-> 3] >>] >>]

InitImports ==
  /\ \E spec \in {"./y", "../b/J"}, alias \in {"none", "h"}, call \in {"helper", "h"},
        j \in ContentsOf(PJ) :
       disk = (PX :> ImporterX(spec, alias, call)) @@ (PY :> Y1) @@ (PJ :> j)
  /\ nodes = {}
  /\ edges = {}
  /\ hashes = [p \in Paths |-> NoHash]
  /\ run = Idle
  /\ observed = NoView
  /\ dirty = TRUE
  /\ syncRecorded = {}
  /\ settled = FALSE
  /\ edits = 0
  /\ faults = 0
  /\ config = TRUE
  /\ logger = NoLogger
  /\ watcher = NoWatcher
  /\ server = NoServer
  /\ scope = WholeProject

SpecImports == InitImports /\ [][UpdatePlaced \/ ResolvePlaced]_vars

-----------------------------------------------------------------------------
(* The watcher's debouncer (watchCommand, processFile).  Time runs in ticks
   of 250 ms. *)

\* DEBOUNCE_MS = 500, in ticks
DebounceTicks == 2

MaxTime == 5
MaxHandles == 4

TimerDue_Always(t, now) == TRUE

\* setTimeout(callback, DEBOUNCE_MS): the callback runs when the time is up,
\* or later
TimerDue(t, now) == now >= t.due

\* processFile(filePath, eventType): the file changes on disk and the
\* watcher is told.  The pending timer of the path is cleared and a new one
\* is set.  History: an event at least DebounceTicks after the previous one
\* begins a new burst; many tells that the burst has more than one event,
\* ran how many reconciliations it has had, missed that a burst before it
\* ended without a reconciliation, wrong that a reconciliation ran less than
\* DebounceTicks after the last event or on another type than the last
\* event's.  The files of the events are a/x.ts and a/y.js.
processFile ==
  /\ config
  /\ \E p \in Paths \ {PJ}, eventType \in {"add", "change", "unlink"} :
       /\ \A g \in scope.exclude : ~GlobMatches(g, p)
       /\ \E c \in {x \in ContentsOf(p) : x.fail = "none"} \cup {Absent} :
            /\ c # disk[p]
            /\ eventType = "unlink" <=> c = Absent
            /\ eventType = "add" <=> (disk[p] = Absent)
            /\ disk' = [disk EXCEPT ![p] = c]
       /\ LET h == watcher.last[p]
              newBurst == h.eventType = "none" \/ watcher.now - h.at >= DebounceTicks
          IN watcher' =
               [watcher EXCEPT
                  !.pending[p] = [eventType |-> eventType, due |-> watcher.now + DebounceTicks],
                  !.last[p] = [eventType |-> eventType, at |-> watcher.now,
                               many |-> ~newBurst,
                               ran |-> IF newBurst THEN 0 ELSE h.ran,
                               missed |-> h.missed \/ (newBurst /\ h.eventType # "none"
                                                              /\ h.ran = 0),
                               wrong |-> h.wrong]]
  /\ dirty' = TRUE
  /\ UNCHANGED <<nodes, edges, hashes, run, observed, syncRecorded, settled, edits, faults,
                 config, logger, server, scope>>

\* the callback of a timer: the reconciliation of one path, with the event
\* type of the call that set the timer.  A timer runs when it is due or
\* later.
TimerFires ==
  /\ \E p \in Paths :
       LET t == watcher.pending[p]
           result == ParserManagerParse(p, disk[p])
           deleted == deleteNodesByFile(nodes, edges, p)
       IN /\ t # NoTimer
          /\ TimerDue(t, watcher.now)
          /\ watcher' = [watcher EXCEPT !.pending[p] = NoTimer,
                                        !.last[p].ran = @ + 1,
                                        !.last[p].wrong =
                                          \/ @
                                          \/ t.eventType # watcher.last[p].eventType
                                          \/ watcher.now < watcher.last[p].at + DebounceTicks]
          /\ IF t.eventType = "unlink"
               THEN /\ nodes' = deleted.nodes
                    /\ edges' = deleted.edges
                    /\ hashes' = deleteFileHash(hashes, p)
             ELSE IF \/ disk[p] = Absent
                     \/ (hashes[p] # NoHash /\ hashes[p] = Hash(disk[p]))
                     \/ ~result.ok
               THEN UNCHANGED <<nodes, edges, hashes>>
             ELSE /\ nodes' = insertNodes(deleted.nodes, result.nodes)
                  /\ edges' = insertEdges(deleted.edges, result.edges)
                  /\ hashes' = setFileHash(hashes, p, Hash(disk[p]))
  /\ settled' = FALSE
  /\ UNCHANGED <<disk, run, observed, dirty, syncRecorded, edits, faults, config, logger, server, scope>>

\* time passes; a timer that is due runs before the next tick
Tick ==
  /\ watcher.now < MaxTime
  /\ \A p \in Paths : watcher.pending[p] = NoTimer \/ watcher.now < watcher.pending[p].due
  /\ watcher' = [watcher EXCEPT !.now = @ + 1]
  /\ UNCHANGED <<disk, nodes, edges, hashes, run, observed, dirty, syncRecorded, settled,
                 edits, faults, config, logger, server, scope>>

SpecWatch == Init /\ [][processFile \/ TimerFires \/ Tick]_vars

-----------------------------------------------------------------------------
(* The tool server's database handle (src/cli/serve.ts, getDb) *)

\* process.cwd() of the server
Cwd == "/p"

\* the projects where .code-graph/config.json exists
InitialisedProjects == {"/p", "/q", "/r"}

\* getDb(projectPath) on server state s; opens tells whether
\* new GraphDatabase(targetProject) returns or throws.  handles are the
\* GraphDatabase objects constructed so far, currentDb is an index into them
\* (0 is null).
getDb(s, projectPath, opens) ==
  LET targetProject == IF projectPath = "" THEN Cwd ELSE projectPath
      closed == IF s.currentDb # 0
                  THEN [s EXCEPT !.handles[s.currentDb].open = FALSE]
                  ELSE s
  IN IF targetProject \notin InitialisedProjects
       THEN [s |-> s, threw |-> TRUE, db |-> 0]
     ELSE IF s.currentProject # targetProject
       THEN IF opens
              THEN [s |-> [closed EXCEPT
                             !.handles = Append(@, [project |-> targetProject,
                                                    open |-> TRUE]),
                             !.currentDb = Len(s.handles) + 1,
                             !.currentProject = targetProject],
                    threw |-> FALSE, db |-> Len(s.handles) + 1]
              ELSE [s |-> closed, threw |-> TRUE, db |-> 0]
     ELSE [s |-> s, threw |-> FALSE, db |-> s.currentDb]

InitHandles ==
  /\ disk = (PX :> X1) @@ (PY :> Y1) @@ (PJ :> J1)
  /\ nodes = {}
  /\ edges = {}
  /\ hashes = [p \in Paths |-> NoHash]
  /\ run = Idle
  /\ observed = NoView
  /\ dirty = TRUE
  /\ syncRecorded = {}
  /\ settled = FALSE
  /\ edits = 0
  /\ faults = 0
  /\ config = TRUE
  /\ logger = NoLogger
  /\ watcher = NoWatcher
  /\ server = NoServer
  /\ scope = WholeProject

\* the CallToolRequest handler up to the handle it queries: every known tool
\* starts with getDb(args.project_path), an unknown tool calls nothing;
\* project_path "" is a call without project_path
GetDbRequest ==
  /\ \E projectPath \in {"", "/p", "/q", "/r", "/u"}, opens \in BOOLEAN, known \in BOOLEAN :
       LET r == IF known THEN getDb(server, projectPath, opens)
                ELSE [s |-> server, threw |-> TRUE, db |-> 0]
       IN /\ Len(r.s.handles) <= MaxHandles
          /\ server' =
               [r.s EXCEPT
                  !.call = [targetProject |-> IF projectPath = "" THEN Cwd ELSE projectPath,
                            rejected |-> r.threw,
                            db |-> r.db,
                            before |-> [currentDb |-> server.currentDb,
                                        currentProject |-> server.currentProject,
                                        open |-> /\ server.currentDb # 0
                                                 /\ server.handles[server.currentDb].open]]]
  /\ UNCHANGED <<disk, nodes, edges, hashes, run, observed, dirty, syncRecorded, settled,
                 edits, faults, config, logger, watcher, scope>>

SpecHandles == InitHandles /\ [][GetDbRequest]_vars

-----------------------------------------------------------------------------
(* Projects whose configuration leaves files out (getSourceFiles) *)

\* three configurations: include names directory a only; exclude names
\* directory b; java is not among the languages
Scopes ==
  {[WholeProject EXCEPT !.include = {"a/**"}],
   [WholeProject EXCEPT !.exclude = {"b/**"}],
   [WholeProject EXCEPT !.languages = {"typescript", "javascript", "python"}]}

InitScope ==
  /\ disk \in {d \in [Paths -> UNION {ContentsOf(p) : p \in Paths}] :
                 \A p \in Paths : d[p] \in ContentsOf(p) /\ d[p].fail = "none"}
  /\ nodes = {}
  /\ edges = {}
  /\ hashes = [p \in Paths |-> NoHash]
  /\ run = Idle
  /\ observed = NoView
  /\ dirty = TRUE
  /\ syncRecorded = {}
  /\ settled = FALSE
  /\ edits = 0
  /\ faults = 0
  /\ config = TRUE
  /\ logger = NoLogger
  /\ watcher = NoWatcher
  /\ server = NoServer
  /\ scope \in Scopes

SpecScope == InitScope /\ [][Next]_vars

-----------------------------------------------------------------------------
(* Properties *)

\* the ids of the nodes that file p had when the run took it in hand
IdsBefore == SelectIdsByFile(run.before.nodes, CurPath)

\* deleteNodesByFile has returned for the file in hand
DeleteReturned == run.step \in {"delHash", "insNodes"}

\* C1: after deleteNodesByFile(p) has completed, called by sync, by update
\* or by the watcher, the store holds no node whose filePath is p and no edge
\* whose sourceId or targetId is the id of a node p had before the call.
C1_DeleteByFileRemovesIncidentEdges ==
  DeleteReturned =>
    /\ \A n \in nodes : n.filePath # CurPath
    /\ \A e \in edges : e.sourceId \notin IdsBefore /\ e.targetId \notin IdsBefore

\* C1 happens: deleteNodesByFile has completed for a file that had nodes, an
\* edge of its own and an edge of another file bound to one of its nodes
C1_Witness ==
  /\ DeleteReturned
  /\ \E e \in run.before.edges : e.sourceId \in IdsBefore
  /\ \E e \in run.before.edges : e.sourceId \notin IdsBefore /\ e.targetId \in IdsBefore

\* C2: in every state that sync, update, the watcher and resolve reach,
\* every stored edge has a stored node for source, and for target either a
\* stored node or a "ref:" placeholder.
C2_NoDanglingEndpoint ==
  \A e \in edges :
    /\ \E n \in nodes : n.id = e.sourceId
    /\ IsRef(e.targetId) \/ \E n \in nodes : n.id = e.targetId

\* C2 happens: a file is half-way through its re-parse (deleted, not yet
\* re-inserted) while the store holds an edge that resolve() bound to a node
\* of another file
C2_Witness ==
  /\ run.mode = "reparse" /\ run.step = "insNodes"
  /\ \E e \in edges :
       /\ Has(e.metadata, "resolvedFrom")
       /\ \E n, m \in nodes : n.id = e.sourceId /\ m.id = e.targetId
                               /\ n.filePath # m.filePath

\* the edges whose source is no node of the file in hand, old or new
EdgesOfOtherFiles(es) ==
  {e \in es : e.sourceId \notin IdsBefore
              /\ \A i \in 1..Len(run.result.nodes) : run.result.nodes[i].id # e.sourceId}

\* the file in hand has been deleted from the store, and perhaps re-inserted
AfterDelete == run.step \in {"delHash", "insNodes", "insEdges", "setHash"}

\* C3 as stated: when file p is deleted from the store or re-parsed, every
\* edge whose source belongs to another file is left in the store unchanged,
\* the edges that resolve() had bound to a node of p included.
C3_OtherFilesEdgesAllKept ==
  AfterDelete => EdgesOfOtherFiles(run.before.edges) \subseteq edges

\* C3, amended: when file p is deleted from the store or re-parsed, the
\* edges whose source belongs to another file are left unchanged, except
\* those whose targetId is a node of p, which are deleted with p.
C3_OtherFilesEdgesKeptUnlessBoundToFile ==
  AfterDelete =>
    EdgesOfOtherFiles(edges) =
      {e \in EdgesOfOtherFiles(run.before.edges) : e.targetId \notin IdsBefore}

\* C3 happens: file p has been deleted and re-inserted; before, another
\* file had an edge bound to a node of p and an edge that was not
C3_Witness ==
  /\ run.mode = "reparse" /\ run.step = "setHash"
  /\ \E e \in EdgesOfOtherFiles(run.before.edges) : e.targetId \in IdsBefore
  /\ \E e \in EdgesOfOtherFiles(run.before.edges) : e.targetId \notin IdsBefore

\* a sync has done its work and is about to return
SyncDone == run.cmd = "sync" /\ run.step = "close"

\* C4: after a sync run completes, with or without --full, the store holds
\* no node and no file-hash entry for a path that an earlier sync recorded
\* and that the run did not find on disk (and that is still not there).
C4_SyncForgetsAbsentFiles ==
  SyncDone =>
    \A p \in run.recorded :
      p \notin run.scanned /\ disk[p] = Absent =>
        /\ hashes[p] = NoHash
        /\ \A n \in nodes : n.filePath # p

\* C5: a sync without --full, run when no file has changed since the
\* previous sync, calls no extractor and writes nothing to the nodes, edges
\* and file hashes, whatever the earlier runs were.
C5_UnchangedSyncDoesNothing ==
  SyncDone /\ run.unchanged => ~run.parsed /\ ~run.wrote

\* what the store holds for file p: its nodes, the edges at its nodes, its hash
FileState(ns, es, hs, p) ==
  [nodes |-> {n \in ns : n.filePath = p},
   edges |-> {e \in es : e.sourceId \in SelectIdsByFile(ns, p)
                         \/ e.targetId \in SelectIdsByFile(ns, p)},
   hash |-> hs[p]]

\* C6: when the extractor fails on a file during sync or update, the nodes,
\* the edges and the file hash previously stored for that file stay exactly
\* as they were.
C6_FailedExtractionLeavesFileUntouched ==
  run.failed /\ IdsBefore # {} =>
    FileState(nodes, edges, hashes, CurPath)
      = FileState(run.before.nodes, run.before.edges, run.before.hashes, CurPath)

\* the nodes and edges tables once the operation on the file in hand is
\* complete: deleteNodesByFile and, for a re-parse, the two inserts
Replaced ==
  LET deleted == deleteNodesByFile(run.before.nodes, run.before.edges, CurPath)
  IN IF run.mode = "delete" THEN deleted
     ELSE [nodes |-> insertNodes(deleted.nodes, run.result.nodes),
           edges |-> insertEdges(deleted.edges, run.result.edges)]

\* the answer to get_file_context for file p on given tables
ViewOf(ns, es, p) ==
  [path |-> p, nodes |-> getFileContext(ns, es, p).nodes,
   incomingEdges |-> getFileContext(ns, es, p).incomingEdges,
   outgoingEdges |-> getFileContext(ns, es, p).outgoingEdges]

\* C7: while sync, update or the watcher re-parses file p, a reader of the
\* store that asks for p's context gets either all of p's previous nodes and
\* edges or all of its new ones.
C7_ReaderSeesOldOrNew ==
  [][GetFileContextTool /\ run.mode = "reparse" =>
       observed' \in {ViewOf(run.before.nodes, run.before.edges, CurPath),
                      ViewOf(Replaced.nodes, Replaced.edges, CurPath)}]_vars

\* C8: if a store statement fails during deleteNodesByFile or during the
\* re-parse of file p, the store is left holding either the complete
\* previous nodes and edges or the complete new ones, never a partial mix
\* (the claim adds that the failure is reported: C8_WriteFailureIsReported).
C8_WriteFailureIsAllOrNothing ==
  [][WriteFails =>
       \/ nodes' = run.before.nodes /\ edges' = run.before.edges
       \/ nodes' = Replaced.nodes /\ edges' = Replaced.edges]_vars

\* the failure of a store statement reaches the user: printed by the catch
\* of the per-file try, or uncaught
C8_WriteFailureIsReported ==
  [][WriteFails => run'.error \in {"printed", "uncaught"}]_vars

\* resolver.resolve() runs: phase 2 of sync, or the resolve command
Resolves == SyncResolve \/ ResolveCommand

\* the node an edge starts at
SourceNodeOf(ns, e) == CHOOSE n \in ns : n.id = e.sourceId

\* the type-compatible candidates of edge e, each with its score
CandidateScores(ns, e) ==
  With(getAllNodes(ns), LAMBDA rows : With(SourceNodeOf(ns, e), LAMBDA src :
    MapSeq(findCandidates(rows, e.metadata.targetName, src, e.type),
           LAMBDA c : [nodeId |-> c.nodeId,
                       score |-> calculateScore(rows, c, src, e.metadata.targetName)])))

\* the best of the scores, and the best of the others
TopIndex(sc) == CHOOSE i \in 1..Len(sc) : \A j \in 1..Len(sc) : sc[j].score <= sc[i].score
TopScore(sc) == sc[TopIndex(sc)].score
SecondScore(sc) ==
  LET others == {sc[j].score : j \in 1..Len(sc) \ {TopIndex(sc)}}
  IN CHOOSE v \in others : \A w \in others : w <= v

\* C9: for an unresolved edge with two or more type-compatible candidates,
\* resolve() binds the edge to the top-scored candidate if and only if the
\* top score exceeds the second-best score by strictly more than 10; with a
\* gap of 10 or less the target of the edge stays as it was.
C9_BoundIffGapAboveTen ==
  [][Resolves =>
       \A e \in getUnresolvedEdges(edges) :
         With(CandidateScores(nodes, e), LAMBDA sc :
           Len(sc) >= 2 =>
             LET after == CHOOSE a \in edges' : a.id = e.id
             IN /\ (after.targetId = sc[TopIndex(sc)].nodeId)
                     <=> (TopScore(sc) - SecondScore(sc) > 10)
                /\ after.targetId # sc[TopIndex(sc)].nodeId
                     => after.targetId = e.targetId)]_vars

\* resolve() has run; it left one edge with candidates ten points apart
\* unbound and bound another whose candidates are further apart
C9_Witness ==
  /\ settled
  /\ \E e \in edges :
       /\ Has(e.metadata, "ambiguousCandidates") /\ IsRef(e.targetId)
       /\ With(CandidateScores(nodes, e), LAMBDA sc :
            Len(sc) >= 2 /\ TopScore(sc) - SecondScore(sc) = 10)
  /\ \E e \in edges :
       /\ Has(e.metadata, "resolvedFrom")
       /\ With(CandidateScores(nodes, e), LAMBDA sc :
            /\ Len(sc) >= 2 /\ TopScore(sc) - SecondScore(sc) > 10
            /\ e.targetId = sc[TopIndex(sc)].nodeId)

\* C10: when resolve() runs again with no change to the store since its
\* last run, every edge (id, sourceId, targetId, type, metadata) is after
\* the second run what it was after the first.
C10_ResolveTwiceSameEdges ==
  [][Resolves /\ settled => edges' = edges]_vars

\* resolve() has run on a store where it bound one edge and left another
\* ambiguous, which the next run takes up again
C10_Witness ==
  /\ settled
  /\ run.cmd = "idle"
  /\ \E e \in getUnresolvedEdges(edges) : Has(e.metadata, "ambiguousCandidates")
  /\ \E e \in edges \ getUnresolvedEdges(edges) : Has(e.metadata, "resolvedFrom")

\* the edge that has the id of e once resolve() has run
AfterResolve(e) == CHOOSE a \in edges' : a.id = e.id

\* C11: when an unresolved edge has exactly one type-compatible candidate,
\* after resolve() the targetId of the edge is the node id of that candidate,
\* metadata.unresolved is false and metadata.resolvedFrom is the "ref:"
\* placeholder the edge held before the run.
C11_SingleCandidateIsBound ==
  [][Resolves =>
       \A e \in getUnresolvedEdges(edges) :
         With(CandidateScores(nodes, e), LAMBDA sc :
           Len(sc) = 1 =>
             /\ IsRef(e.targetId)
             /\ AfterResolve(e).targetId = sc[1].nodeId
             /\ Has(AfterResolve(e).metadata, "unresolved")
             /\ AfterResolve(e).metadata.unresolved = FALSE
             /\ Has(AfterResolve(e).metadata, "resolvedFrom")
             /\ AfterResolve(e).metadata.resolvedFrom = e.targetId)]_vars

\* resolve() has run and bound an edge that has a single candidate
C11_Witness ==
  /\ settled
  /\ \E e \in edges :
       /\ Has(e.metadata, "resolvedFrom") /\ IsRef(e.metadata.resolvedFrom)
       /\ ~IsRef(e.targetId)
       /\ With(CandidateScores(nodes, e), LAMBDA sc :
            Len(sc) = 1 /\ e.targetId = sc[1].nodeId)


\* the files of the second project that define helper, and their nodes
PlacedH == CHOOSE p \in HPaths : p \in DOMAIN disk
PlacedG == CHOOSE p \in GPaths : p \in DOMAIN disk
HelperOf(p) == CHOOSE n \in nodes : n.filePath = p /\ n.type = "function"

\* the edge for the call of helper() in a/c.ts
HelperCalls == {e \in edges : e.type = "calls" /\ e.metadata.targetName = "helper"}

\* the edge holds its placeholder and lists both definitions of helper
ListsBoth(e) ==
  /\ IsRef(e.targetId)
  /\ Has(e.metadata, "ambiguousCandidates")
  /\ {<<"helper", PlacedH>>, <<"helper", PlacedG>>}
        \subseteq Range(e.metadata.ambiguousCandidates)

\* resolve() has run on the store that holds the three files
PlacedResolved == settled /\ HelperCalls # {}

\* C12: two files each define a top-level function helper and a third calls
\* helper() importing neither; wherever the three files are placed, after
\* resolve() the calls edge still holds its "ref:" placeholder and its
\* metadata.ambiguousCandidates lists both definitions.
C12_TwoHelpersAlwaysAmbiguous ==
  PlacedResolved => \A e \in HelperCalls : ListsBoth(e)

\* what the place of a definition of helper adds to its score for the
\* caller a/c.ts: its directory, its language, its being exported
PlaceScore(p) ==
  (IF p \in {"a/h.ts", "a/h.js", "a/g.ts", "a/g.js"} THEN 50 ELSE 0)
  + (IF p \in {"a/h.ts", "b/h.ts", "a/g.ts", "b/g.ts"} THEN 30 ELSE 0)
  + (IF disk[p].funcs[1].exported THEN 20 ELSE 0)

\* C12, amended: after resolve() the calls edge holds its placeholder and
\* lists both definitions when the scores of the two are at most 10 apart;
\* when one definition is ahead by more than 10 (same directory as the
\* caller +50, same language +30, exported +20) the edge is bound to it.
C12_TwoHelpersAmbiguousWhenClose ==
  PlacedResolved =>
    \A e \in HelperCalls :
      IF PlaceScore(PlacedH) - PlaceScore(PlacedG) > 10
        THEN e.targetId = HelperOf(PlacedH).id
      ELSE IF PlaceScore(PlacedG) - PlaceScore(PlacedH) > 10
        THEN e.targetId = HelperOf(PlacedG).id
      ELSE ListsBoth(e)

\* resolve() has run where the two definitions are exactly 10 apart, and
\* the edge lists both
C12_Witness ==
  /\ PlacedResolved
  /\ PlaceScore(PlacedH) - PlaceScore(PlacedG) = 10
  /\ \E e \in HelperCalls : ListsBoth(e)

\* C13: in every reachable state, after resolve() has rewritten targets
\* too, the id of every stored edge is the hash of its current sourceId,
\* targetId and type.
C13_EdgeIdIsHashOfCurrentTriple ==
  \A e \in edges : e.id = generateEdgeId(e.sourceId, e.targetId, e.type)

\* the target an edge had when the extractor emitted it
EmittedTarget(e) ==
  IF Has(e.metadata, "resolvedFrom") THEN e.metadata.resolvedFrom ELSE e.targetId

\* C13, amended: the id of every stored edge is the hash of its sourceId,
\* the target the extractor emitted (the current targetId, or
\* metadata.resolvedFrom once resolve() has bound the edge) and its type.
C13_EdgeIdIsHashOfEmittedTriple ==
  \A e \in edges : e.id = generateEdgeId(e.sourceId, EmittedTarget(e), e.type)

\* resolve() has bound an edge, next to one that still holds its placeholder
C13_Witness ==
  /\ \E e \in edges : Has(e.metadata, "resolvedFrom") /\ e.targetId # e.metadata.resolvedFrom
  /\ \E e \in edges : IsRef(e.targetId)

\* the stored edges whose targetId starts with "ref:"
PlaceholderEdges == {e \in edges : e.targetId[1] = "ref"}

\* C14: in every reachable state resolutionStats() reports resolved = the
\* number of edges minus the number of edges whose targetId starts with
\* "ref:", and unresolved = that number of placeholder edges.
C14_PlaceholderAccounting ==
  /\ getResolutionStats(edges).resolved
       = Cardinality(edges) - Cardinality(PlaceholderEdges)
  /\ getResolutionStats(edges).unresolved = Cardinality(PlaceholderEdges)

\* the store holds contains edges, an edge resolve() has bound and an edge
\* that still holds its placeholder
C14_Witness ==
  /\ \E e \in edges : e.type = "contains"
  /\ \E e \in edges : Has(e.metadata, "resolvedFrom") /\ e \notin PlaceholderEdges
  /\ PlaceholderEdges # {}
  /\ getResolutionStats(edges).resolved > 0

\* C15: after deleteNodesByFile(p), inserting the extractor output for p a
\* second time leaves the nodes and the edges as the first insert left
\* them.
C15_InsertTwiceIsInsertOnce ==
  run.mode = "reparse" /\ run.step = "setHash" =>
    /\ insertNodes(nodes, run.result.nodes) = nodes
    /\ insertEdges(edges, run.result.edges) = edges

\* the output for a file that had nodes has been inserted after the delete;
\* it holds nodes and edges, among them a call edge
C15_Witness ==
  /\ run.mode = "reparse" /\ run.step = "setHash"
  /\ IdsBefore # {}
  /\ Len(run.result.nodes) > 1
  /\ \E i \in 1..Len(run.result.edges) :
       run.result.edges[i].type = "calls" /\ run.result.edges[i] \in edges

\* C16: for every positive max_tokens and every content of the target
\* file, the token_estimate that get_editing_context returns is at most
\* max_tokens.
C16_TokenEstimateWithinBudget ==
  observed # NoView => observed.token_estimate <= observed.max_tokens

\* C17: every response of the tool server whose JSON payload carries an
\* error field has isError set to true, for every tool and every kind of
\* failure.
C17_ErrorPayloadHasIsError ==
  Has(observed, "isError") /\ observed.error # "none" => observed.isError

\* C18: a command that needs an initialised project (sync, update, query,
\* resolve, watch, status) run while .code-graph/config.json is missing
\* ends with exit code 1 and a message, and the store is left as it was
\* (empty: no command has written to it).
C18_UninitialisedExitsWithOne ==
  Has(observed, "exitCode") /\ observed.command \in NeedsProject =>
    /\ observed.exitCode = 1
    /\ observed.message # ""
    /\ ~config => nodes = {} /\ edges = {}

\* C19: no failure while logging (creating the log directory, serialising
\* the result, appending to the log file) leaves the McpLogger constructor,
\* logRequest or logResponse as an exception.
C19_LoggingNeverThrows ==
  Has(observed, "threw") => ~observed.threw

\* the compatibility table of the resolver's contract
AllowedTypes ==
  [calls |-> {"function", "method", "endpoint"},
   uses |-> {"variable", "class", "interface", "function", "method"},
   extends |-> {"class", "interface"},
   implements |-> {"interface"},
   imports |-> {"module", "file", "class", "function", "variable"},
   autowires |-> {"class", "interface", "service", "repository", "component", "controller"},
   injects |-> {"class", "interface", "service", "repository", "component", "controller"}]

\* the edges resolve() has bound, each with the node it was bound to
BoundPairs ==
  {<<e, n>> \in edges \X nodes :
     Has(e.metadata, "resolvedFrom") /\ ~IsRef(e.targetId) /\ n.id = e.targetId}

\* C20: resolve() never binds an edge to a node whose type the compatibility
\* table forbids for the edge's type; an edge whose type is absent from the
\* table may be bound to a node of any indexed type.
C20_BoundTargetIsCompatible ==
  \A pair \in BoundPairs :
    /\ pair[1].type \in DOMAIN AllowedTypes => pair[2].type \in AllowedTypes[pair[1].type]
    /\ pair[2].type \notin {"file", "import"}

\* resolve() has bound an edge of a type of the table to the one declaration
\* of an allowed type, a declaration of a forbidden type having the same name
C20_Witness ==
  /\ settled
  /\ \E pair \in BoundPairs :
       /\ pair[1].type \in DOMAIN AllowedTypes
       /\ \E n \in nodes :
            /\ n.name = pair[1].metadata.targetName
            /\ n.type \notin {"file", "import"}
            /\ n.type \notin AllowedTypes[pair[1].type]

\* C21: a resolve() run changes no node, no file hash and no edge whose
\* targetId is not a "ref:" placeholder; of the edges it touches it changes
\* only targetId and metadata, never id, sourceId or type; and it leaves
\* as it was every edge without metadata.targetName and every edge whose
\* source node is missing.
C21_ResolveFrame ==
  [][Resolves =>
       /\ nodes' = nodes
       /\ hashes' = hashes
       /\ Cardinality(edges') = Cardinality(edges)
       /\ \A e \in edges :
            /\ \E a \in edges' : a.id = e.id
            /\ AfterResolve(e).sourceId = e.sourceId
            /\ AfterResolve(e).type = e.type
            /\ (\/ ~IsRef(e.targetId)
                \/ ~Has(e.metadata, "targetName")
                \/ \A n \in nodes : n.id # e.sourceId) => AfterResolve(e) = e]_vars

\* resolve() has bound one edge, next to edges without a target name and an
\* edge that was bound before
C21_Witness ==
  /\ settled
  /\ \E e \in edges : Has(e.metadata, "resolvedFrom") /\ ~IsRef(e.targetId)
  /\ \E e \in edges : ~Has(e.metadata, "targetName")
  /\ \E e \in edges : IsRef(e.targetId)

\* the named imports written in the file of a node: module specifier,
\* imported name X and the name Y it is brought in under
WrittenImports(filePath) ==
  UNION {{[spec |-> imp.spec, name |-> imp.named[k],
           as |-> IF imp.aliases[k] = "none" THEN imp.named[k] ELSE imp.aliases[k]]
          : k \in 1..Len(imp.named)}
         : imp \in Range(disk[filePath].imports)}

\* C22: when the source file has an import that brings symbol X in under
\* the name or alias Y, and the cleaned target name of an edge is Y or starts
\* with "Y.", the candidates of the edge contain every node named X (of a
\* type allowed for the edge) whose file matches the module specifier of the
\* import.
C22_ImportedSymbolIsCandidate ==
  \A e \in getUnresolvedEdges(edges) :
    \A src \in {n \in nodes : n.id = e.sourceId /\ hashes[n.filePath] = Hash(disk[n.filePath])} :
      \A imp \in WrittenImports(src.filePath) :
        With(cleanTargetName(e.metadata.targetName), LAMBDA cleanName :
          (cleanName = imp.as \/ StartsWithName(cleanName, imp.as)) =>
            \A n \in nodes :
              (/\ n.type \notin {"file", "import"}
               /\ imp.name \in IndexKeys(n)
               /\ isCompatibleType(n.type, e.type)
               /\ moduleMatches(n.filePath, imp.spec, src.filePath))
              => \E i \in 1..Len(CandidateScores(nodes, e)) :
                   CandidateScores(nodes, e)[i].nodeId = n.id)

\* what holds of the reconciliation of a burst that has had one: it is the
\* only one, it ran DebounceTicks or more after the last event and acted on
\* the type of the last event
BurstReconciledOnce(h) ==
  /\ h.ran <= 1
  /\ ~h.wrong

\* C23 as stated: for every burst of events on one path, each less than
\* 500 ms after the previous one, exactly one reconciliation of the path
\* runs, after the last event and on the last event's type.  No burst ends
\* without its reconciliation.
C23_ExactlyOneReconciliationPerBurst ==
  \A p \in Paths :
    /\ BurstReconciledOnce(watcher.last[p])
    /\ ~watcher.last[p].missed

\* C23, amended: no reconciliation of a path runs less than 500 ms after an
\* event on the path; a burst has at most one reconciliation, after its last
\* event and on the last event's type, and has it unless the next event on
\* the path arrives before the timer's callback has run; a timer is pending
\* for a path only after an event on that path that no reconciliation has
\* followed, and only an event on the path or the timer's own callback
\* changes it.
C23_AtMostOneReconciliationPerBurst ==
  [][\A p \in Paths :
       /\ BurstReconciledOnce(watcher'.last[p])
       /\ watcher'.pending[p] # NoTimer =>
            /\ watcher'.last[p].ran = 0
            /\ watcher'.pending[p].eventType = watcher'.last[p].eventType
            /\ watcher'.pending[p].due = watcher'.last[p].at + DebounceTicks
       /\ watcher'.pending[p] # watcher.pending[p] =>
            \/ watcher'.last[p].ran = watcher.last[p].ran + 1
            \/ /\ disk'[p] # disk[p]
               /\ watcher'.last[p].at = watcher.now
               /\ watcher'.pending[p] # NoTimer
       /\ watcher'.last[p].missed /\ ~watcher.last[p].missed =>
            /\ watcher.pending[p] # NoTimer
            /\ watcher.now >= watcher.pending[p].due]_vars

\* a burst of two events on a path, the second less than 500 ms after the
\* first and of another type, has had its reconciliation while a timer is
\* pending for another path
C23_Witness ==
  \E p \in Paths :
    /\ watcher.last[p].ran = 1
    /\ watcher.last[p].eventType = "unlink"
    /\ disk[p] = Absent
    /\ hashes[p] = NoHash
    /\ watcher.last[p].many
    /\ \E q \in Paths \ {p} : watcher.pending[q] # NoTimer

\* C24: at the end of a sync run the errors counter equals the number of
\* files of the run whose extraction failed, and processed equals the number
\* of files whose new nodes and edges were committed.
C24_CountersMatchOutcomes ==
  run.cmd = "sync" /\ run.step = "close" =>
    /\ run.errors = run.extractionFailed
    /\ run.processed = run.committed

\* the store a from-scratch sync with its resolve pass builds from the
\* files on disk
FromScratch ==
  With(StoreAfterUpdates(disk,
                         {p \in Paths : disk[p] # Absent
                                        /\ ParserManagerParse(p, disk[p]).ok},
                         ScanOrder),
       LAMBDA st : [nodes |-> st.nodes, edges |-> resolve(st.nodes, st.edges)])

Triples(es) == {<<e.sourceId, e.targetId, e.type>> : e \in es}

\* C25: when a sync without --full and without --skip-resolve has ended and
\* the disk has not changed since its scan, the store holds the nodes and the (sourceId,
\* targetId, type) edges that a single from-scratch sync plus resolve over the
\* disk contents would produce, whatever creations, edits and deletions and
\* whatever syncs came before.
C25_IncrementalEqualsFromScratch ==
  run.cmd = "sync" /\ run.step = "close" /\ ~dirty =>
    With(FromScratch, LAMBDA scratch :
      /\ nodes = scratch.nodes
      /\ Triples(edges) = Triples(scratch.edges))

\* the edges whose metadata.unresolved is true
FlaggedUnresolved(es) ==
  {e \in es : Has(e.metadata, "unresolved") /\ e.metadata.unresolved = TRUE}

\* C26: in every reachable state a stored edge has metadata.unresolved = true
\* exactly when its targetId starts with "ref:", so the work list of resolve()
\* is the set of edges resolutionStats() counts as unresolved.
C26_UnresolvedFlagIffPlaceholder ==
  /\ \A e \in edges : e \in FlaggedUnresolved(edges) <=> IsRef(e.targetId)
  /\ getUnresolvedEdges(edges) = {e \in edges : IsRef(e.targetId)}
  /\ Cardinality(getUnresolvedEdges(edges)) = getResolutionStats(edges).unresolved

\* resolve() has run: one edge is bound with its flag cleared, another was
\* classified ambiguous and keeps its placeholder and its flag
C26_Witness ==
  /\ settled
  /\ \E e \in edges : /\ ~IsRef(e.targetId)
                      /\ Has(e.metadata, "unresolved") /\ e.metadata.unresolved = FALSE
  /\ \E e \in edges : /\ IsRef(e.targetId) /\ Has(e.metadata, "ambiguousCandidates")
                      /\ e \in FlaggedUnresolved(edges)

\* the nodes stored for file p
StoredNodesOf(p) == {n \in nodes : n.filePath = p}

\* C27: whenever the store records hash h for path p (no run is in the middle
\* of its writes), the nodes stored for p are exactly the nodes the extractor
\* yields for the content that hashes to h, even when the file was modified
\* between the hashing pass of a sync and its parsing pass.
C27_HashMatchesStoredNodes ==
  run.cmd = "idle" \/ run.step = "close" =>
    \A p \in Paths :
      hashes[p] # NoHash =>
        \E c \in ContentsOf(p) :
          /\ Hash(c) = hashes[p]
          /\ ParserManagerParse(p, c).ok
          /\ StoredNodesOf(p) = insertNodes({}, ParserManagerParse(p, c).nodes)

\* the edges that carry metadata.ambiguousCandidates
CarryCandidates == {e \in edges : Has(e.metadata, "ambiguousCandidates")}

\* C28: after any sequence of sync, update and resolve runs an edge carries
\* metadata.ambiguousCandidates only if the most recent resolve() classified
\* it as ambiguous; no edge bound to a concrete node carries the list.
C28_CandidatesOnlyOnAmbiguousEdges ==
  /\ \A e \in CarryCandidates : IsRef(e.targetId)
  /\ settled =>
       \A e \in CarryCandidates :
         With(getAllNodes(nodes), LAMBDA rows : resolveEdge(rows, e).ambiguous)

\* the handles that are open
OpenHandles == {i \in 1..Len(server.handles) : server.handles[i].open}

\* C29: after any sequence of tool calls with arbitrary project_path values,
\* calls for uninitialised projects and calls during which opening a
\* database fails included, the server holds at most one open handle, the
\* handle it uses to serve a call is open and belongs to the requested
\* project, and a rejected call leaves the current handle and the current
\* project as they were.
C29_OneOpenHandleOfRequestedProject ==
  /\ Cardinality(OpenHandles) <= 1
  /\ server.call.db # 0 =>
       /\ server.handles[server.call.db].open
       /\ server.handles[server.call.db].project = server.call.targetProject
  /\ server.call.rejected =>
       /\ server.currentDb = server.call.before.currentDb
       /\ server.currentProject = server.call.before.currentProject
       /\ server.currentDb # 0 =>
            server.handles[server.currentDb].open = server.call.before.open

\* whether file p is one that getSourceFiles may return under the project's
\* configuration
InScope(p) ==
  /\ scope.include # {} => \E g \in scope.include : GlobMatches(g, p)
  /\ \A g \in scope.exclude : ~GlobMatches(g, p)
  /\ getLanguageForFile(p) \in scope.languages

\* C30: after any sequence of sync, update and watcher runs every node in the
\* store belongs to a file that matches the include patterns, matches no
\* exclude pattern and has a language enabled in config.languages.
C30_StoredFilesAreInScope == \A n \in nodes : InScope(n.filePath)

====
